---- MODULE Spec2Model ----
(***************************************************************************)
(* A model of the adaptive study scheduler of gmate: FIRe credit           *)
(* propagation (src/lib/fire.ts), the attempt-recording route              *)
(* (src/app/api/attempts/route.ts), the mastery estimator, the spaced      *)
(* repetition engine and the task selector.                                *)
(*                                                                         *)
(* Numbers.  The code computes in IEEE doubles; the model computes in      *)
(* fixed point.  A level, accuracy, weight, stability or urgency x is the   *)
(* integer x * Scale, products are divided back by Scale (rounding down).   *)
(* Time is counted in minutes.                                             *)
(***************************************************************************)
EXTENDS Integers, Sequences, FiniteSets, TLC

----------------------------------------------------------------------------
(* Bounds of the model *)

\* topics of the prerequisite graphs handed to computeFIReCredits
NumTopics == 6
\* prerequisite edges of those graphs
MaxEdges == 6

(* Program constants *)

\* fire.ts: const MAX_DEPTH = 4
MAX_DEPTH == 4
\* fixed-point unit: 1.0 is four decimal digits
Scale == 100 * 100
\* fire.ts: const FIRE_BASE_WEIGHT = 0.5
FIRE_BASE_WEIGHT == Scale \div 2

Topics == 1..NumTopics
\* the topic being explicitly practised in the FIRe specification
RootTopic == 1

----------------------------------------------------------------------------
VARIABLES
  prerequisites,  \* Topic.prerequisites: topic id -> list of prerequisite ids
  fireTopic,      \* topicId passed to computeFIReCredits (0: not yet called)
  credits,        \* the FIReCredit[] it returned
  now,            \* the wall clock, in minutes
  attempts,       \* table Attempt, in order of creation
  mastery,        \* table TopicMastery: topic id -> record (unique topicId)
  reviewQueue,    \* table ReviewQueue: topic id -> record (unique topicId)
  pc,             \* per record-attempt request: the await it is about to run
  req,            \* per request: the question's topic, isCorrect, timeSpentMs
  loc,            \* per request: the local variables of the handler
  effects,        \* per request: the writes it has made, in order
  overlapped,     \* whether a request has started while another was running
  selInput,       \* TaskSelectorInput: allTopics, allMastery, reviewQueue
  selCount,       \* count passed to selectNextTasks (-1: not yet called)
  selTasks,       \* the TaskRecommendation[] it returned
  callName,       \* the library function called directly ("none": none yet)
  callArgs,       \* its arguments
  callResult      \* what it returned

fireVars == <<prerequisites, fireTopic, credits>>
storeVars == <<now, attempts, mastery, reviewQueue, pc, req, loc, effects, overlapped>>
selVars == <<selInput, selCount, selTasks>>
callVars == <<callName, callArgs, callResult>>
vars == <<prerequisites, fireTopic, credits,
          now, attempts, mastery, reviewQueue, pc, req, loc, effects, overlapped,
          selInput, selCount, selTasks, callName, callArgs, callResult>>

----------------------------------------------------------------------------
(* Helpers on lists *)

InList(s, x) == \E i \in 1..Len(s) : s[i] = x

----------------------------------------------------------------------------
(* fire.ts *)

\* Math.pow(FIRE_BASE_WEIGHT, depth)
RECURSIVE FireWeight(_)
FireWeight(depth) ==
  IF depth = 0 THEN Scale ELSE (FIRE_BASE_WEIGHT * FireWeight(depth - 1)) \div Scale

\* traverse(currentId, depth); st carries the closure's `visited` and `credits`.
\* TraverseFrom is the for-loop over `prerequisites`, from index i on.
RECURSIVE Traverse(_, _, _, _), TraverseFrom(_, _, _, _, _)
Traverse(g, currentId, depth, st) ==
  IF depth > MAX_DEPTH THEN st
  ELSE TraverseFrom(g, g[currentId], 1, depth, st)

TraverseFrom(g, list, i, depth, st) ==
  IF i > Len(list) THEN st
  ELSE LET prereqId == list[i] IN
       IF prereqId \in st.visited
       THEN TraverseFrom(g, list, i + 1, depth, st)
       ELSE TraverseFrom(g, list, i + 1, depth,
              Traverse(g, prereqId, depth + 1,
                [visited |-> st.visited \cup {prereqId},
                 credits |-> Append(st.credits,
                               [topicId |-> prereqId,
                                weight  |-> FireWeight(depth),
                                depth   |-> depth])]))

\* a traversal that forgets to seed `visited` with the practised topic
ComputeFIReCreditsUnseeded(g, topicId) ==
  Traverse(g, topicId, 1, [visited |-> {}, credits |-> <<>>]).credits

ComputeFIReCredits(g, topicId) ==
  Traverse(g, topicId, 1, [visited |-> {topicId}, credits |-> <<>>]).credits

----------------------------------------------------------------------------
(* mastery.ts *)

Min(a, b) == IF a <= b THEN a ELSE b
Max(a, b) == IF a >= b THEN a ELSE b

\* getMasteryStage(level)
GetMasteryStage(level) ==
  IF level >= (9 * Scale) \div 10 THEN "FLUENT"
  ELSE IF level >= (75 * Scale) \div 100 THEN "MASTERED"
  ELSE IF level >= (5 * Scale) \div 10 THEN "PROFICIENT"
  ELSE IF level >= (3 * Scale) \div 10 THEN "DEVELOPING"
  ELSE IF level >= (1 * Scale) \div 10 THEN "INTRODUCED"
  ELSE "UNKNOWN"

\* alpha of explicit practice (0.3) and of implicit credit (0.1)
EXPLICIT_ALPHA == (3 * Scale) \div 10
IMPLICIT_ALPHA == (1 * Scale) \div 10

\* updateMasteryLevel(currentLevel, attemptScore, alpha)
UpdateMasteryLevel(currentLevel, attemptScore, alpha) ==
  LET newLevel == currentLevel + (alpha * (attemptScore - currentLevel)) \div Scale
  IN Max(0, Min(Scale, newLevel))

Day == 24 * 60

\* calculateRollingAccuracy(attempts, windowDays, now)
CalculateRollingAccuracy(atts, windowDays, t) ==
  LET windowStart == t - windowDays * Day
      inWindow == {i \in 1..Len(atts) : atts[i].createdAt >= windowStart}
      correct == {i \in inWindow : atts[i].isCorrect}
  IN IF inWindow = {} THEN 0
     ELSE (Cardinality(correct) * Scale) \div Cardinality(inWindow)

\* Math.round(num / den) for num >= 0, den > 0
RoundDiv(num, den) == (2 * num + den) \div (2 * den)

\* a practice count that no attempt raises
NewPracticeCountKept(practiceCount, isImplicit) == practiceCount

\* computeMasteryUpdate: newPracticeCount
NewPracticeCount(practiceCount, isImplicit) ==
  practiceCount + (IF isImplicit THEN 0 ELSE 1)

\* computeMasteryUpdate(current, newAttempt, recentAttempts, isImplicit)
ComputeMasteryUpdate(current, isCorrect, timeSpentMs, recentAttempts, isImplicit, t) ==
  LET alpha == IF isImplicit THEN IMPLICIT_ALPHA ELSE EXPLICIT_ALPHA
      score == IF isCorrect THEN Scale ELSE 0
      newMasteryLevel == UpdateMasteryLevel(current.masteryLevel, score, alpha)
      newPracticeCount == NewPracticeCount(current.practiceCount, isImplicit)
      allAttempts == Append(recentAttempts, [isCorrect |-> isCorrect, createdAt |-> t])
      newAvgTimeMs ==
        IF isImplicit THEN current.avgTimeMs
        ELSE IF current.practiceCount = 0 THEN timeSpentMs
        ELSE RoundDiv(current.avgTimeMs * current.practiceCount + timeSpentMs,
                      current.practiceCount + 1)
  IN [masteryLevel  |-> newMasteryLevel,
      masteryStage  |-> GetMasteryStage(newMasteryLevel),
      practiceCount |-> newPracticeCount,
      accuracy7d    |-> CalculateRollingAccuracy(allAttempts, 7, t),
      accuracy30d   |-> CalculateRollingAccuracy(allAttempts, 30, t),
      avgTimeMs     |-> newAvgTimeMs]

----------------------------------------------------------------------------
(* spaced-repetition.ts; intervals are in minutes *)

DEFAULT_INTERVAL == 4 * 60
MIN_INTERVAL == 30
MAX_INTERVAL == 90 * 24 * 60

\* computeNextInterval(currentIntervalMs, accuracyScore, masteryLevel)
ComputeNextInterval(currentInterval, accuracyScore, masteryLevel) ==
  LET stepped ==
        IF accuracyScore >= (9 * Scale) \div 10 THEN (currentInterval * 25) \div 10
        ELSE IF accuracyScore >= (7 * Scale) \div 10 THEN (currentInterval * 15) \div 10
        ELSE IF accuracyScore >= (5 * Scale) \div 10 THEN currentInterval
        ELSE IF accuracyScore >= (3 * Scale) \div 10 THEN (currentInterval * 5) \div 10
        ELSE DEFAULT_INTERVAL
      \* newInterval *= 1 + masteryLevel * 0.1
      boosted == stepped + (stepped * (masteryLevel \div 10)) \div Scale
  IN Max(MIN_INTERVAL, Min(MAX_INTERVAL, boosted))

\* floor of the square root of n, 0 <= n <= Scale * Scale
RECURSIVE ISqrtIn(_, _, _)
ISqrtIn(n, lo, hi) ==
  IF lo >= hi THEN lo
  ELSE LET mid == (lo + hi + 1) \div 2
       IN IF mid * mid <= n THEN ISqrtIn(n, mid, hi) ELSE ISqrtIn(n, lo, mid - 1)

\* Math.max(0.1, 1 / Math.sqrt(practiceCount + 1))
LearningRate(practiceCount) ==
  Max(Scale \div 10, ISqrtIn((Scale * Scale) \div (practiceCount + 1), 0, Scale))

STABILITY_FLOOR == Scale \div 2

\* a stability update whose failure branch has no floor
UpdateStabilityUnfloored(currentStability, accuracyScore, practiceCount) ==
  LET learningRate == LearningRate(practiceCount)
  IN IF accuracyScore >= (7 * Scale) \div 10
     THEN currentStability + (learningRate * accuracyScore) \div Scale
     ELSE currentStability - (learningRate * (Scale - accuracyScore)) \div Scale

\* updateStability(currentStability, accuracyScore, practiceCount)
UpdateStability(currentStability, accuracyScore, practiceCount) ==
  LET learningRate == LearningRate(practiceCount)
  IN IF accuracyScore >= (7 * Scale) \div 10
     THEN currentStability + (learningRate * accuracyScore) \div Scale
     ELSE Max(STABILITY_FLOOR,
              currentStability - (learningRate * (Scale - accuracyScore)) \div Scale)

\* computeNextReviewAt(intervalMs, now)
ComputeNextReviewAt(interval, t) == t + interval

----------------------------------------------------------------------------
(* The store and the record-attempt route, app/api/attempts/route.ts *)

\* record-attempt requests of one run
MaxRequests == 3
\* advances of the wall clock between requests
MaxTicks == 1

Requests == 1..MaxRequests

\* Question.topicId is nullable
NoTopic == 0
\* a null timestamp
Never == -1

\* the seeded curriculum: Word Problems (1) requires Algebra (2), which
\* requires Arithmetic (3)
StoreGraph == <<(<<2>>), (<<3>>), (<<>>)>>
StoreTopics == DOMAIN StoreGraph

\* timeSpentMs of a request
TimeSpentChoices == {45000}
\* how far the clock jumps between requests
ClockSteps == {8 * Day}

\* prisma.topicMastery.create({ data: { topicId, masteryLevel: 0, masteryStage: "UNKNOWN" } })
\* with the column defaults of the schema
DefaultMastery ==
  [masteryLevel    |-> 0,
   masteryStage    |-> "UNKNOWN",
   practiceCount   |-> 0,
   lastPracticedAt |-> Never,
   accuracy7d      |-> 0,
   accuracy30d     |-> 0,
   avgTimeMs       |-> 0,
   stabilityFactor |-> Scale,
   nextReviewAt    |-> Never]

NoRequest == [topicId |-> NoTopic, isCorrect |-> FALSE, timeSpentMs |-> 0]
NoLocals ==
  [mastery        |-> DefaultMastery,
   recentAttempts |-> <<>>,
   credits        |-> <<>>,
   newInterval    |-> 0,
   nextReviewAt   |-> Never]

Settled(r) == pc[r] \in {"idle", "done", "failed"}

NotCalled == -1
NoInput == [allTopics |-> <<>>, allMastery |-> <<>>, reviewQueue |-> <<>>]

\* selectNextTasks has no input and has not been called
SelectorIdle ==
  /\ selInput = NoInput
  /\ selCount = NotCalled
  /\ selTasks = <<>>

\* no library function has been called directly
CallsIdle ==
  /\ callName = "none"
  /\ callArgs = <<>>
  /\ callResult = <<>>

\* no request has been made and no table has a row
StoreIdle ==
  /\ now = 0
  /\ attempts = <<>>
  /\ mastery = <<>>
  /\ reviewQueue = <<>>
  /\ pc = [r \in Requests |-> "idle"]
  /\ req = [r \in Requests |-> NoRequest]
  /\ loc = [r \in Requests |-> NoLocals]
  /\ effects = [r \in Requests |-> <<>>]
  /\ overlapped = FALSE

Init ==
  /\ prerequisites = StoreGraph
  /\ fireTopic = 0
  /\ credits = <<>>
  /\ StoreIdle
  /\ CallsIdle
  /\ SelectorIdle

\* a write of row `rec` for topic t into table tbl
WriteRow(tbl, t, rec) == (t :> rec) @@ tbl

\* a step after attempt.create that applies the FIRe credits before
\* updateTopicMastery
AfterAttemptCreateCreditsFirst(topicId, isCorrect) ==
  IF topicId = NoTopic THEN "done"
  ELSE IF isCorrect THEN "computeFIReCredits" ELSE "masteryFind"

\* the step after attempt.create: `if (question.topicId)`
AfterAttemptCreate(topicId, isCorrect) ==
  IF topicId = NoTopic THEN "done" ELSE "masteryFind"

\* `if (isCorrect)` guarding the FIRe credits
PropagatesAlways(isCorrect) == TRUE
Propagates(isCorrect) == isCorrect

\* `if (!mastery) return` of updateTopicMasteryImplicit
SkipsImplicitNever(found) == FALSE
SkipsImplicit(found) == ~found

\* POST, up to `const isCorrect = ...`: the body is parsed and the question found
StartRequest(r, topicId, isCorrect, timeSpentMs) ==
  /\ pc[r] = "idle"
  /\ \A q \in Requests : q < r => pc[q] # "idle"
  /\ \A q \in Requests : Settled(q)
  /\ pc' = [pc EXCEPT ![r] = "attemptCreate"]
  /\ req' = [req EXCEPT ![r] = [topicId |-> topicId, isCorrect |-> isCorrect,
                                timeSpentMs |-> timeSpentMs]]
  /\ UNCHANGED <<now, attempts, mastery, reviewQueue, loc, effects, overlapped>>

\* POST: question not found, 404
RejectRequest(r) ==
  /\ pc[r] = "idle"
  /\ \A q \in Requests : q < r => pc[q] # "idle"
  /\ \A q \in Requests : Settled(q)
  /\ pc' = [pc EXCEPT ![r] = "done"]
  /\ UNCHANGED <<now, attempts, mastery, reviewQueue, req, loc, effects, overlapped>>

\* prisma.attempt.create
AttemptCreate(r) ==
  /\ pc[r] = "attemptCreate"
  /\ attempts' = Append(attempts, [topicId   |-> req[r].topicId,
                                   isCorrect |-> req[r].isCorrect,
                                   createdAt |-> now])
  /\ effects' = [effects EXCEPT ![r] = Append(@, "attempt")]
  /\ pc' = [pc EXCEPT ![r] = AfterAttemptCreate(req[r].topicId, req[r].isCorrect)]
  /\ UNCHANGED <<now, mastery, reviewQueue, req, loc, overlapped>>

\* updateTopicMastery: prisma.topicMastery.findUnique
MasteryFind(r) ==
  /\ pc[r] = "masteryFind"
  /\ IF req[r].topicId \in DOMAIN mastery
     THEN /\ loc' = [loc EXCEPT ![r].mastery = mastery[req[r].topicId]]
          /\ pc' = [pc EXCEPT ![r] = "attemptFindMany"]
     ELSE /\ pc' = [pc EXCEPT ![r] = "masteryCreate"]
          /\ UNCHANGED loc
  /\ UNCHANGED <<now, attempts, mastery, reviewQueue, req, effects, overlapped>>

\* updateTopicMastery: prisma.topicMastery.create; the unique index on
\* topicId rejects a second row for the topic
MasteryCreate(r) ==
  /\ pc[r] = "masteryCreate"
  /\ IF req[r].topicId \in DOMAIN mastery
     THEN /\ pc' = [pc EXCEPT ![r] = "failed"]
          /\ UNCHANGED <<mastery, loc, effects>>
     ELSE /\ mastery' = WriteRow(mastery, req[r].topicId, DefaultMastery)
          /\ loc' = [loc EXCEPT ![r].mastery = DefaultMastery]
          /\ effects' = [effects EXCEPT ![r] = Append(@, "masteryCreate")]
          /\ pc' = [pc EXCEPT ![r] = "attemptFindMany"]
  /\ UNCHANGED <<now, attempts, reviewQueue, req, overlapped>>

\* updateTopicMastery: prisma.attempt.findMany over the last 30 days
AttemptFindMany(r) ==
  /\ pc[r] = "attemptFindMany"
  /\ loc' = [loc EXCEPT ![r].recentAttempts =
               SelectSeq(attempts,
                 LAMBDA a : a.topicId = req[r].topicId /\ a.createdAt >= now - 30 * Day)]
  /\ pc' = [pc EXCEPT ![r] = "masteryUpdate"]
  /\ UNCHANGED <<now, attempts, mastery, reviewQueue, req, effects, overlapped>>

\* the current interval updateTopicMastery hands to computeNextInterval
RouteCurrentInterval == 4 * 60

\* updateTopicMastery, from computeMasteryUpdate to computeNextReviewAt: the
\* row written to TopicMastery and the interval for the review queue, from
\* the record m and the attempts `recent` read before
ExplicitUpdate(m, isCorrect, timeSpentMs, recent, t) ==
  LET update == ComputeMasteryUpdate(m, isCorrect, timeSpentMs, recent, FALSE, t)
      newStability == UpdateStability(m.stabilityFactor, update.accuracy7d,
                                      update.practiceCount)
      newInterval == ComputeNextInterval(RouteCurrentInterval, update.accuracy7d,
                                         update.masteryLevel)
      nextReviewAt == ComputeNextReviewAt(newInterval, t)
  IN [row |-> [masteryLevel    |-> update.masteryLevel,
               masteryStage    |-> update.masteryStage,
               practiceCount   |-> update.practiceCount,
               lastPracticedAt |-> t,
               accuracy7d      |-> update.accuracy7d,
               accuracy30d     |-> update.accuracy30d,
               avgTimeMs       |-> update.avgTimeMs,
               stabilityFactor |-> newStability,
               nextReviewAt    |-> nextReviewAt],
      newInterval |-> newInterval,
      nextReviewAt |-> nextReviewAt]

\* the columns of an Attempt row that calculateRollingAccuracy reads
Selected(atts) ==
  [i \in 1..Len(atts) |-> [isCorrect |-> atts[i].isCorrect,
                           createdAt |-> atts[i].createdAt]]

\* updateTopicMastery: computeMasteryUpdate, updateStability,
\* computeNextInterval, computeNextReviewAt, prisma.topicMastery.update
MasteryUpdate(r) ==
  /\ pc[r] = "masteryUpdate"
  /\ LET u == ExplicitUpdate(loc[r].mastery, req[r].isCorrect, req[r].timeSpentMs,
                             Selected(loc[r].recentAttempts), now)
     IN /\ mastery' = WriteRow(mastery, req[r].topicId, u.row)
        /\ loc' = [loc EXCEPT ![r].newInterval = u.newInterval,
                              ![r].nextReviewAt = u.nextReviewAt]
  /\ effects' = [effects EXCEPT ![r] = Append(@, "mastery")]
  /\ pc' = [pc EXCEPT ![r] = "queueUpsert"]
  /\ UNCHANGED <<now, attempts, reviewQueue, req, overlapped>>

\* updateTopicMastery: prisma.reviewQueue.upsert; then `if (isCorrect)`
QueueUpsert(r) ==
  /\ pc[r] = "queueUpsert"
  /\ reviewQueue' = WriteRow(reviewQueue, req[r].topicId,
                      [scheduledAt |-> loc[r].nextReviewAt,
                       intervalMs  |-> loc[r].newInterval,
                       urgency     |-> 0])
  /\ effects' = [effects EXCEPT ![r] = Append(@, "queue")]
  /\ pc' = [pc EXCEPT ![r] =
              IF Propagates(req[r].isCorrect) THEN "computeFIReCredits" ELSE "done"]
  /\ UNCHANGED <<now, attempts, mastery, req, loc, overlapped>>

\* POST: computeFIReCredits over prisma.topic.findUnique
CreditsCompute(r) ==
  /\ pc[r] = "computeFIReCredits"
  /\ LET cs == ComputeFIReCredits(prerequisites, req[r].topicId)
     IN /\ loc' = [loc EXCEPT ![r].credits = cs]
        /\ pc' = [pc EXCEPT ![r] = IF cs = <<>> THEN "done" ELSE "creditFind"]
  /\ UNCHANGED <<now, attempts, mastery, reviewQueue, req, effects, overlapped>>

\* updateTopicMasteryImplicit: prisma.topicMastery.findUnique
CreditFind(r) ==
  /\ pc[r] = "creditFind"
  /\ LET credit == Head(loc[r].credits)
         found == credit.topicId \in DOMAIN mastery
     IN IF SkipsImplicit(found)
        THEN /\ loc' = [loc EXCEPT ![r].credits = Tail(@)]
             /\ pc' = [pc EXCEPT ![r] =
                         IF Tail(loc[r].credits) = <<>> THEN "done" ELSE "creditFind"]
        ELSE /\ loc' = [loc EXCEPT ![r].mastery =
                          IF found THEN mastery[credit.topicId] ELSE DefaultMastery]
             /\ pc' = [pc EXCEPT ![r] = "creditUpdate"]
  /\ UNCHANGED <<now, attempts, mastery, reviewQueue, req, effects, overlapped>>

\* updateTopicMasteryImplicit: updateMasteryLevel(level, fireWeight, 0.1)
ImplicitLevel(masteryLevel, fireWeight) ==
  UpdateMasteryLevel(masteryLevel, fireWeight, IMPLICIT_ALPHA)

\* a stage table without the 0.3 threshold
ImplicitStageNoDeveloping(newLevel) ==
  IF newLevel >= (9 * Scale) \div 10 THEN "FLUENT"
  ELSE IF newLevel >= (75 * Scale) \div 100 THEN "MASTERED"
  ELSE IF newLevel >= (5 * Scale) \div 10 THEN "PROFICIENT"
  ELSE IF newLevel >= (1 * Scale) \div 10 THEN "INTRODUCED"
  ELSE "UNKNOWN"

\* updateTopicMasteryImplicit: the stage written with the new level
ImplicitStage(newLevel) ==
  IF newLevel >= (9 * Scale) \div 10 THEN "FLUENT"
  ELSE IF newLevel >= (75 * Scale) \div 100 THEN "MASTERED"
  ELSE IF newLevel >= (5 * Scale) \div 10 THEN "PROFICIENT"
  ELSE IF newLevel >= (3 * Scale) \div 10 THEN "DEVELOPING"
  ELSE IF newLevel >= (1 * Scale) \div 10 THEN "INTRODUCED"
  ELSE "UNKNOWN"

\* an update that also counts the credit as a practice
ImplicitDataCounted(row, newLevel) ==
  [row EXCEPT !.masteryLevel = newLevel,
              !.masteryStage = ImplicitStage(newLevel),
              !.practiceCount = @ + 1]

\* updateTopicMasteryImplicit: the row after `data: { masteryLevel, masteryStage }`
ImplicitData(row, newLevel) ==
  [row EXCEPT !.masteryLevel = newLevel,
              !.masteryStage = ImplicitStage(newLevel)]

\* updateTopicMasteryImplicit: prisma.topicMastery.update of level and stage
CreditUpdate(r) ==
  /\ pc[r] = "creditUpdate"
  /\ LET credit == Head(loc[r].credits)
         row == IF credit.topicId \in DOMAIN mastery
                THEN mastery[credit.topicId] ELSE DefaultMastery
         newLevel == ImplicitLevel(loc[r].mastery.masteryLevel, credit.weight)
     IN mastery' = WriteRow(mastery, credit.topicId, ImplicitData(row, newLevel))
  /\ loc' = [loc EXCEPT ![r].credits = Tail(@)]
  /\ effects' = [effects EXCEPT ![r] = Append(@, "credit")]
  /\ pc' = [pc EXCEPT ![r] =
              IF Tail(loc[r].credits) = <<>> THEN "done" ELSE "creditFind"]
  /\ UNCHANGED <<now, attempts, reviewQueue, req, overlapped>>

\* time passes between two requests
AdvanceClock(d) ==
  /\ \A q \in Requests : Settled(q)
  /\ now < MaxTicks * 8 * Day
  /\ now' = now + d
  /\ UNCHANGED <<attempts, mastery, reviewQueue, pc, req, loc, effects, overlapped>>

Next ==
  \/ \E r \in Requests, t \in StoreTopics \cup {NoTopic}, c \in BOOLEAN,
        ms \in TimeSpentChoices : StartRequest(r, t, c, ms) /\ UNCHANGED <<fireVars, selVars, callVars>>
  \/ \E r \in Requests : RejectRequest(r) /\ UNCHANGED <<fireVars, selVars, callVars>>
  \/ \E r \in Requests : AttemptCreate(r) /\ UNCHANGED <<fireVars, selVars, callVars>>
  \/ \E r \in Requests : MasteryFind(r) /\ UNCHANGED <<fireVars, selVars, callVars>>
  \/ \E r \in Requests : MasteryCreate(r) /\ UNCHANGED <<fireVars, selVars, callVars>>
  \/ \E r \in Requests : AttemptFindMany(r) /\ UNCHANGED <<fireVars, selVars, callVars>>
  \/ \E r \in Requests : MasteryUpdate(r) /\ UNCHANGED <<fireVars, selVars, callVars>>
  \/ \E r \in Requests : QueueUpsert(r) /\ UNCHANGED <<fireVars, selVars, callVars>>
  \/ \E r \in Requests : CreditsCompute(r) /\ UNCHANGED <<fireVars, selVars, callVars>>
  \/ \E r \in Requests : CreditFind(r) /\ UNCHANGED <<fireVars, selVars, callVars>>
  \/ \E r \in Requests : CreditUpdate(r) /\ UNCHANGED <<fireVars, selVars, callVars>>
  \/ \E d \in ClockSteps : AdvanceClock(d) /\ UNCHANGED <<fireVars, selVars, callVars>>

Spec == Init /\ [][Next]_vars

----------------------------------------------------------------------------
(* Concurrent record-attempt requests.  The handler holds no lock and runs *)
(* in no transaction: every await of one request may be followed by an     *)
(* await of another.  The requests of this specification are on questions  *)
(* of Algebra and Arithmetic, and a request may start while others run.    *)

\* requests that may run at the same time
MaxConcurrent == 2
Concurrent == 1..MaxConcurrent

\* the requests are on Algebra (2); the first may instead be on its
\* prerequisite Arithmetic (3), which the others then credit
ConcurrentTopics(r) == IF r = 1 THEN {2, 3} ELSE {2}

\* POST, up to `const isCorrect = ...`, with no wait for the other requests
StartConcurrentRequest(r, topicId, isCorrect, timeSpentMs) ==
  /\ pc[r] = "idle"
  /\ \A q \in Concurrent : q < r => pc[q] # "idle"
  /\ pc' = [pc EXCEPT ![r] = "attemptCreate"]
  /\ req' = [req EXCEPT ![r] = [topicId |-> topicId, isCorrect |-> isCorrect,
                                timeSpentMs |-> timeSpentMs]]
  /\ overlapped' = (overlapped \/ \E q \in Requests : ~Settled(q))
  /\ UNCHANGED <<now, attempts, mastery, reviewQueue, loc, effects>>

ConcurrentNext ==
  \/ \E r \in Concurrent : \E t \in ConcurrentTopics(r), c \in BOOLEAN, ms \in TimeSpentChoices :
       StartConcurrentRequest(r, t, c, ms) /\ UNCHANGED <<fireVars, selVars, callVars>>
  \/ \E r \in Concurrent : AttemptCreate(r) /\ UNCHANGED <<fireVars, selVars, callVars>>
  \/ \E r \in Concurrent : MasteryFind(r) /\ UNCHANGED <<fireVars, selVars, callVars>>
  \/ \E r \in Concurrent : MasteryCreate(r) /\ UNCHANGED <<fireVars, selVars, callVars>>
  \/ \E r \in Concurrent : AttemptFindMany(r) /\ UNCHANGED <<fireVars, selVars, callVars>>
  \/ \E r \in Concurrent : MasteryUpdate(r) /\ UNCHANGED <<fireVars, selVars, callVars>>
  \/ \E r \in Concurrent : QueueUpsert(r) /\ UNCHANGED <<fireVars, selVars, callVars>>
  \/ \E r \in Concurrent : CreditsCompute(r) /\ UNCHANGED <<fireVars, selVars, callVars>>
  \/ \E r \in Concurrent : CreditFind(r) /\ UNCHANGED <<fireVars, selVars, callVars>>
  \/ \E r \in Concurrent : CreditUpdate(r) /\ UNCHANGED <<fireVars, selVars, callVars>>

SpecConcurrent == Init /\ [][ConcurrentNext]_vars

----------------------------------------------------------------------------
(* The FIRe specification: a prerequisite graph is seeded edge by edge,     *)
(* then computeFIReCredits is called on it.  The lists are filled topic by   *)
(* topic, and topics are numbered in the order the seeding first mentions   *)
(* them, starting from the practised topic: every graph reachable from the  *)
(* practised topic appears once, up to a renaming of its topics.  The order *)
(* of each prerequisite list is the order of insertion, so every ordering   *)
(* appears.  Self-loops and cycles are seeded like any other edge.          *)

RECURSIVE EdgesUpTo(_)
EdgesUpTo(n) == IF n = 0 THEN 0 ELSE Len(prerequisites[n]) + EdgesUpTo(n - 1)
EdgeCount == EdgesUpTo(NumTopics)

\* topics the seeding has mentioned so far
Known == {RootTopic} \cup
         {p \in Topics : \E t \in Topics : InList(prerequisites[t], p)}

FireInit ==
  /\ prerequisites = [t \in Topics |-> <<>>]
  /\ fireTopic = 0
  /\ credits = <<>>
  /\ StoreIdle
  /\ CallsIdle
  /\ SelectorIdle

\* one row of _TopicPrerequisites: p becomes a prerequisite of t
AddPrerequisite(t, p) ==
  /\ fireTopic = 0
  /\ ~InList(prerequisites[t], p)
  /\ \A u \in Topics : u > t => prerequisites[u] = <<>>
  /\ EdgeCount < MaxEdges
  /\ t \in Known
  /\ \A q \in Topics : q < p => q \in Known
  /\ prerequisites' = [prerequisites EXCEPT ![t] = Append(@, p)]
  /\ UNCHANGED <<fireTopic, credits>>
  /\ UNCHANGED <<storeVars, selVars, callVars>>

CallComputeFIReCredits ==
  /\ fireTopic = 0
  /\ fireTopic' = RootTopic
  /\ credits' = ComputeFIReCredits(prerequisites, RootTopic)
  /\ UNCHANGED prerequisites
  /\ UNCHANGED <<storeVars, selVars, callVars>>

FireNext ==
  \/ \E t \in Topics, p \in Topics : AddPrerequisite(t, p)
  \/ CallComputeFIReCredits

SpecFire == FireInit /\ [][FireNext]_vars

----------------------------------------------------------------------------
(* Reference notions for the FIRe claims *)

\* topics within k prerequisite steps of t
RECURSIVE Within(_, _, _)
Within(g, t, k) ==
  IF k = 0 THEN {t}
  ELSE LET W == Within(g, t, k - 1)
       IN W \cup {p \in Topics : \E u \in W : InList(g[u], p)}

Unreachable == NumTopics + 1

\* length of the shortest prerequisite path from t to x
Dist(g, t, x) ==
  IF x \notin Within(g, t, NumTopics) THEN Unreachable
  ELSE CHOOSE k \in 0..NumTopics :
         /\ x \in Within(g, t, k)
         /\ k > 0 => x \notin Within(g, t, k - 1)

CreditedTopics == {credits[i].topicId : i \in 1..Len(credits)}

\* T has prerequisites A and B, which share the single prerequisite Z
IsDiamond(g, t) ==
  /\ Len(g[t]) = 2
  /\ LET a == g[t][1]
         b == g[t][2]
     IN /\ Len(g[a]) = 1 /\ g[b] = g[a] /\ g[g[a][1]] = <<>>
        /\ Cardinality({t, a, b, g[a][1]}) = 4

\* C1: the credit list has no entry for the practised topic and at most one
\* entry per topic, cycles included; on the diamond it has exactly three
\* entries, the shared prerequisite appearing once.
C1_NoSelfNoDuplicate ==
  fireTopic # 0 =>
    /\ fireTopic \notin CreditedTopics
    /\ \A i, j \in 1..Len(credits) :
         credits[i].topicId = credits[j].topicId => i = j
    /\ IsDiamond(prerequisites, fireTopic) => Len(credits) = 3

\* computeFIReCredits has been called on a diamond
C1_Witness ==
  /\ fireTopic # 0
  /\ IsDiamond(prerequisites, fireTopic)
  /\ Len(credits) = 3

\* C2: every credit's depth is the shortest prerequisite-path length from the
\* practised topic, and its weight is 0.5 to that power.
C2_DepthIsShortestPath ==
  fireTopic # 0 =>
    \A i \in 1..Len(credits) :
      /\ credits[i].depth = Dist(prerequisites, fireTopic, credits[i].topicId)
      /\ credits[i].weight =
           FireWeight(Dist(prerequisites, fireTopic, credits[i].topicId))

\* C3: the credited topics are exactly the topics at shortest distance 1..4.
C3_CreditedExactlyWithinDepth ==
  fireTopic # 0 =>
    CreditedTopics =
      {x \in Topics \ {fireTopic} :
         Dist(prerequisites, fireTopic, x) \in 1..MAX_DEPTH}

----------------------------------------------------------------------------
(* difficulty-calibrator.ts and gmat-constants.ts *)

OPTIMAL_MIN == (70 * Scale) \div 100
OPTIMAL_MAX == (85 * Scale) \div 100
\* practice count below which recommendDifficulty holds the level
MIN_PRACTICE == 5

\* a step up that always lands on the hardest level
GetHardestDifficulty(d) == "HARD"

\* getHarderDifficulty(d)
GetHarderDifficulty(d) ==
  CASE d = "EASY" -> "MEDIUM" [] d = "MEDIUM" -> "HARD" [] d = "HARD" -> "HARD"

\* getEasierDifficulty(d)
GetEasierDifficulty(d) ==
  CASE d = "EASY" -> "EASY" [] d = "MEDIUM" -> "EASY" [] d = "HARD" -> "MEDIUM"

\* recommendDifficulty(currentDifficulty, recentAccuracy, practiceCount)
RecommendDifficulty(currentDifficulty, recentAccuracy, practiceCount) ==
  IF practiceCount < MIN_PRACTICE
  THEN [recommended |-> currentDifficulty, inOptimalZone |-> TRUE]
  ELSE IF recentAccuracy > OPTIMAL_MAX
  THEN [recommended |-> GetHarderDifficulty(currentDifficulty), inOptimalZone |-> FALSE]
  ELSE IF recentAccuracy < OPTIMAL_MIN
  THEN [recommended |-> GetEasierDifficulty(currentDifficulty), inOptimalZone |-> FALSE]
  ELSE [recommended |-> currentDifficulty, inOptimalZone |-> TRUE]

\* recent attempts below which getScaffoldLevel ignores the accuracy
MIN_RECENT == 3

\* recentAccuracy = null
NoAccuracy == -1

\* getScaffoldLevel(masteryLevel, recentAccuracy, recentAttemptCount)
GetScaffoldLevel(masteryLevel, recentAccuracy, recentAttemptCount) ==
  LET level == IF masteryLevel < (3 * Scale) \div 10 THEN 1
               ELSE IF masteryLevel < (5 * Scale) \div 10 THEN 2
               ELSE IF masteryLevel < (75 * Scale) \div 100 THEN 3
               ELSE 4
  IN IF recentAccuracy # NoAccuracy /\ recentAttemptCount >= MIN_RECENT
     THEN IF recentAccuracy < (4 * Scale) \div 10 THEN Max(1, level - 2)
          ELSE IF recentAccuracy < (6 * Scale) \div 10 THEN Max(1, level - 1)
          ELSE level
     ELSE level

----------------------------------------------------------------------------
(* task-selector.ts.  A topic is [id, section, prerequisites, prerequisiteOf], *)
(* the two lists holding topic ids; a mastery record carries its topicId; a   *)
(* review-queue item is [topicId, urgency, isDue].  Names, reasons and the    *)
(* unresolved questionId of a task are left out.                              *)

\* stable sort of a list by descending key (Array.prototype.sort is stable);
\* key[i] is the key of seq[i]
StableSortDesc(seq, key) ==
  LET n == Len(seq)
      rank == [i \in 1..n |->
                 1 + Cardinality({j \in 1..n :
                       key[j] > key[i] \/ (key[j] = key[i] /\ j < i)})]
  IN [k \in 1..n |-> seq[CHOOSE i \in 1..n : rank[i] = k]]

Range(s) == {s[i] : i \in 1..Len(s)}

\* new Map(list.map((x) => [x.topicId, x])): the last entry of an id wins
LastWith(list, id) ==
  list[CHOOSE i \in 1..Len(list) :
         list[i].topicId = id /\ \A j \in (i + 1)..Len(list) : list[j].topicId # id]
MasteryMap(allMastery) ==
  [id \in {allMastery[i].topicId : i \in 1..Len(allMastery)} |-> LastWith(allMastery, id)]
TopicMap(allTopics) ==
  [id \in {allTopics[i].id : i \in 1..Len(allTopics)} |->
     allTopics[CHOOSE i \in 1..Len(allTopics) :
         allTopics[i].id = id /\ \A j \in (i + 1)..Len(allTopics) : allTopics[j].id # id]]

\* m?.masteryLevel ?? 0
LevelOf(masteryMap, id) ==
  IF id \in DOMAIN masteryMap THEN masteryMap[id].masteryLevel ELSE 0

PROFICIENT_LEVEL == (5 * Scale) \div 10
FRONTIER_LEVEL == (3 * Scale) \div 10

\* a gate that counts a prerequisite without a record as met
IsTopicUnlockedLax(topic, masteryMap) ==
  \A i \in 1..Len(topic.prerequisites) :
    topic.prerequisites[i] \in DOMAIN masteryMap =>
      masteryMap[topic.prerequisites[i]].masteryLevel >= PROFICIENT_LEVEL

\* isTopicUnlocked(topic, masteryMap)
IsTopicUnlocked(topic, masteryMap) ==
  IF Len(topic.prerequisites) = 0 THEN TRUE
  ELSE \A i \in 1..Len(topic.prerequisites) :
         /\ topic.prerequisites[i] \in DOMAIN masteryMap
         /\ masteryMap[topic.prerequisites[i]].masteryLevel >= PROFICIENT_LEVEL

\* computeKnowledgeFrontier(allTopics, masteryMap)
ComputeKnowledgeFrontier(allTopics, masteryMap) ==
  SelectSeq(allTopics, LAMBDA topic :
    /\ IsTopicUnlocked(topic, masteryMap)
    /\ LevelOf(masteryMap, topic.id) < FRONTIER_LEVEL)

\* getPrereqGraph.traverse(currentId, depth); st is [visited, prereqs]
RECURSIVE PrereqTraverse(_, _, _, _), PrereqTraverseFrom(_, _, _, _, _)
PrereqTraverse(topicMap, currentId, depth, st) ==
  IF depth > 4 THEN st
  ELSE IF currentId \notin DOMAIN topicMap THEN st
  ELSE PrereqTraverseFrom(topicMap, topicMap[currentId].prerequisites, 1, depth, st)

PrereqTraverseFrom(topicMap, list, i, depth, st) ==
  IF i > Len(list) THEN st
  ELSE IF list[i] \in st.visited
  THEN PrereqTraverseFrom(topicMap, list, i + 1, depth, st)
  ELSE PrereqTraverseFrom(topicMap, list, i + 1, depth,
         PrereqTraverse(topicMap, list[i], depth + 1,
           [visited |-> st.visited \cup {list[i]},
            prereqs |-> st.prereqs \cup {list[i]}]))

\* getPrereqGraph(topicId, topicMap)
GetPrereqGraph(topicId, topicMap) ==
  PrereqTraverse(topicMap, topicId, 1, [visited |-> {topicId}, prereqs |-> {}]).prereqs

\* the ids of a list, repeats dropped, in order of first occurrence (new Set)
RECURSIVE Dedup(_)
Dedup(ids) ==
  IF ids = <<>> THEN <<>>
  ELSE LET front == Dedup(SubSeq(ids, 1, Len(ids) - 1))
           last == ids[Len(ids)]
       IN IF InList(front, last) THEN front ELSE Append(front, last)

RECURSIVE SumSeq(_)
SumSeq(s) == IF s = <<>> THEN 0 ELSE Head(s) + SumSeq(Tail(s))

\* urgencyMap.get(id) ?? 0
UrgencyOf(reviewQueueItems, id) ==
  IF \E i \in 1..Len(reviewQueueItems) : reviewQueueItems[i].topicId = id
  THEN LastWith(reviewQueueItems, id).urgency ELSE 0

CONSOLIDATION_BONUS == (2 * Scale) \div 10
\* due topics needed before consolidation is attempted, and covered per candidate
MIN_DUE_FOR_CONSOLIDATION == 3
MIN_CONSOLIDATES == 2

\* a coverage test that a single due topic passes
CoversEnoughOne(n) == n >= 1

\* Rule 7: `consolidates.length >= 2`
CoversEnough(n) == n >= MIN_CONSOLIDATES

\* findConsolidationCandidates(dueTopicIds, allTopics, masteryMap, reviewQueue)
FindConsolidationCandidates(dueTopicIds, allTopics, masteryMap, reviewQueueItems) ==
  IF Len(dueTopicIds) < MIN_DUE_FOR_CONSOLIDATION THEN <<>>
  ELSE
    LET topicMap == TopicMap(allTopics)
        \* per topic of allTopics: the due topics among its prerequisites,
        \* none for a topic the loop skips
        consolidates ==
          [k \in 1..Len(allTopics) |->
             IF \/ InList(dueTopicIds, allTopics[k].id)
                \/ allTopics[k].id \notin DOMAIN masteryMap
             THEN <<>>
             ELSE IF masteryMap[allTopics[k].id].masteryLevel < FRONTIER_LEVEL
             THEN <<>>
             ELSE LET prereqs == GetPrereqGraph(allTopics[k].id, topicMap)
                  IN SelectSeq(dueTopicIds, LAMBDA id : id \in prereqs)]
        pushed ==
          SelectSeq([k \in 1..Len(allTopics) |-> k],
                    LAMBDA k : consolidates[k] # <<>> /\ CoversEnough(Len(consolidates[k])))
        candidates ==
          [c \in 1..Len(pushed) |->
             LET cons == consolidates[pushed[c]]
                 avgUrgency ==
                   SumSeq([i \in 1..Len(cons) |-> UrgencyOf(reviewQueueItems, cons[i])])
                     \div Len(cons)
             IN [topic |-> allTopics[pushed[c]], consolidates |-> cons,
                 avgUrgency |-> avgUrgency,
                 priority |-> avgUrgency + CONSOLIDATION_BONUS]]
    IN StableSortDesc(candidates, [c \in 1..Len(candidates) |-> candidates[c].priority])

\* the while loop of interleaveBySections: result so far, tasks remaining
RECURSIVE InterleaveLoop(_, _)
InterleaveLoop(result, remaining) ==
  IF remaining = <<>> THEN result
  ELSE LET lastSection == result[Len(result)].section
           diff == {i \in 1..Len(remaining) : remaining[i].section # lastSection}
           idx == IF diff # {} THEN CHOOSE i \in diff : \A j \in diff : i <= j ELSE 1
       IN InterleaveLoop(Append(result, remaining[idx]),
                         SubSeq(remaining, 1, idx - 1) \o
                           SubSeq(remaining, idx + 1, Len(remaining)))

\* an interleaving that only sorts by urgency
InterleaveBySectionsSortOnly(tasks) ==
  StableSortDesc(tasks, [i \in 1..Len(tasks) |-> tasks[i].urgency])

\* interleaveBySections(tasks)
InterleaveBySections(tasks) ==
  IF Len(tasks) <= 1 THEN tasks
  ELSE LET remaining == StableSortDesc(tasks, [i \in 1..Len(tasks) |-> tasks[i].urgency])
       IN InterleaveLoop(<<Head(remaining)>>, Tail(remaining))

\* prioritizeFrontierTopics(frontier, allTopics, masteryMap): more unlocks
\* first, then the section with fewer practised topics
PrioritizeFrontierTopics(frontier, allTopics, masteryMap) ==
  LET SectionPracticeCount(section) ==
        Cardinality({id \in DOMAIN masteryMap :
          /\ masteryMap[id].practiceCount > 0
          /\ \E i \in 1..Len(allTopics) :
               /\ allTopics[i].id = id
               /\ \A j \in 1..(i - 1) : allTopics[j].id # id
               /\ allTopics[i].section = section})
      key == [i \in 1..Len(frontier) |->
                Len(frontier[i].prerequisiteOf) * (Len(allTopics) + 1)
                  - SectionPracticeCount(frontier[i].section)]
  IN StableSortDesc(frontier, key)

\* getDifficultyForTopic(m)
GetDifficultyForTopic(masteryMap, id) ==
  IF id \notin DOMAIN masteryMap THEN "EASY"
  ELSE IF masteryMap[id].practiceCount < MIN_PRACTICE THEN "EASY"
  ELSE RecommendDifficulty("MEDIUM", masteryMap[id].accuracy7d,
                           masteryMap[id].practiceCount).recommended

\* getScaffoldForTopic(m)
GetScaffoldForTopic(masteryMap, id) ==
  IF id \notin DOMAIN masteryMap THEN 1
  ELSE GetScaffoldLevel(masteryMap[id].masteryLevel, masteryMap[id].accuracy7d,
                        masteryMap[id].practiceCount)

\* Math.ceil(n * 0.6)
CeilSixTenths(n) == -((-6 * n) \div 10)

\* a slot test that never stops a loop
SlotsFullNever(tasks, count) == FALSE

\* `if (tasks.length >= count) break`
SlotsFull(tasks, count) == Len(tasks) >= count

\* the consolidation loop: tasks so far, candidates from index i on
RECURSIVE ConsolidationLoop(_, _, _, _, _)
ConsolidationLoop(st, consolidations, i, masteryMap, count) ==
  IF i > Len(consolidations) \/ SlotsFull(st.tasks, count) THEN st
  ELSE LET candidate == consolidations[i]
       IN ConsolidationLoop(
            [tasks |-> Append(st.tasks,
                        [taskType      |-> "CONSOLIDATION",
                         topicId       |-> candidate.topic.id,
                         section       |-> candidate.topic.section,
                         difficulty    |-> GetDifficultyForTopic(masteryMap, candidate.topic.id),
                         scaffoldLevel |-> GetScaffoldForTopic(masteryMap, candidate.topic.id),
                         urgency       |-> candidate.priority,
                         fireConsolidatesTopics |-> candidate.consolidates]),
             consolidatedTopicIds |->
               st.consolidatedTopicIds \cup Range(candidate.consolidates)],
            consolidations, i + 1, masteryMap, count)

\* a review loop that stops at an entry whose topic is missing
OnMissingTopicBreak(tasks, continued) == tasks

\* `if (!topic) continue`: the loop goes on with the next entry
OnMissingTopic(tasks, continued) == continued

\* the loop over remainingDue: tasks so far, entries from index i on
RECURSIVE ReviewLoop(_, _, _, _, _, _, _, _)
ReviewLoop(tasks, remainingDue, i, nConsolidations, reviewSlots, topicMap, masteryMap, count) ==
  IF i > Len(remainingDue) THEN tasks
  ELSE IF SlotsFull(tasks, count) THEN tasks
  ELSE IF Len(tasks) - nConsolidations >= reviewSlots THEN tasks
  ELSE LET review == remainingDue[i]
       IN IF review.topicId \notin DOMAIN topicMap
          THEN OnMissingTopic(tasks,
                 ReviewLoop(tasks, remainingDue, i + 1, nConsolidations, reviewSlots,
                            topicMap, masteryMap, count))
          ELSE ReviewLoop(
                 Append(tasks,
                   [taskType      |-> "REVIEW",
                    topicId       |-> review.topicId,
                    section       |-> topicMap[review.topicId].section,
                    difficulty    |-> GetDifficultyForTopic(masteryMap, review.topicId),
                    scaffoldLevel |-> GetScaffoldForTopic(masteryMap, review.topicId),
                    urgency       |-> review.urgency,
                    fireConsolidatesTopics |-> <<>>]),
                 remainingDue, i + 1, nConsolidations, reviewSlots,
                 topicMap, masteryMap, count)

\* the loop over the prioritized frontier
RECURSIVE NewTopicLoop(_, _, _, _, _)
NewTopicLoop(tasks, prioritized, i, masteryMap, count) ==
  IF i > Len(prioritized) \/ SlotsFull(tasks, count) THEN tasks
  ELSE NewTopicLoop(
         Append(tasks,
           [taskType      |-> "NEW_TOPIC",
            topicId       |-> prioritized[i].id,
            section       |-> prioritized[i].section,
            difficulty    |-> "EASY",
            scaffoldLevel |-> GetScaffoldForTopic(masteryMap, prioritized[i].id),
            urgency       |-> 0,
            fireConsolidatesTopics |-> <<>>]),
         prioritized, i + 1, masteryMap, count)

\* a review quota of 60% of the free slots, whatever is due
ReviewSlotsQuota(nRemainingDue, count, nTasks) == CeilSixTenths(count - nTasks)

\* Rule 18: `Math.max(remainingDue.length, Math.ceil((count - tasks.length) * 0.6))`
ReviewSlots(nRemainingDue, count, nTasks) ==
  Max(nRemainingDue, CeilSixTenths(count - nTasks))

\* a filter that keeps the covered entries too
RemainingDueAll(dueReviews, consolidatedTopicIds) == dueReviews

\* `dueReviews.filter((r) => !consolidatedTopicIds.has(r.topicId))`
RemainingDue(dueReviews, consolidatedTopicIds) ==
  SelectSeq(dueReviews, LAMBDA r : r.topicId \notin consolidatedTopicIds)

\* outstanding due reviews at which no new topic is added
MAX_OUTSTANDING == 5

\* a gate that opens one review later
NewTopicsAllowedLate(outstandingReviews) == outstandingReviews < MAX_OUTSTANDING + 1

\* Rule 12: `outstandingReviews < 5`
NewTopicsAllowed(outstandingReviews) == outstandingReviews < MAX_OUTSTANDING

\* selectNextTasks(input, count), before the interleaving
SelectTasks(input, count) ==
  LET allTopics == input.allTopics
      masteryMap == MasteryMap(input.allMastery)
      topicMap == TopicMap(allTopics)
      due == SelectSeq(input.reviewQueue, LAMBDA r : r.isDue)
      dueReviews == StableSortDesc(due, [i \in 1..Len(due) |-> due[i].urgency])
      dueTopicIds == Dedup([i \in 1..Len(dueReviews) |-> dueReviews[i].topicId])
      consolidations ==
        FindConsolidationCandidates(dueTopicIds, allTopics, masteryMap, input.reviewQueue)
      afterCons ==
        ConsolidationLoop([tasks |-> <<>>, consolidatedTopicIds |-> {}],
                          consolidations, 1, masteryMap, count)
      remainingDue == RemainingDue(dueReviews, afterCons.consolidatedTopicIds)
      reviewSlots == ReviewSlots(Len(remainingDue), count, Len(afterCons.tasks))
      afterReviews ==
        ReviewLoop(afterCons.tasks, remainingDue, 1, Len(consolidations), reviewSlots,
                   topicMap, masteryMap, count)
      outstandingReviews == Len(dueReviews) - Cardinality(afterCons.consolidatedTopicIds)
  IN IF NewTopicsAllowed(outstandingReviews) /\ Len(afterReviews) < count
     THEN NewTopicLoop(afterReviews,
            PrioritizeFrontierTopics(ComputeKnowledgeFrontier(allTopics, masteryMap),
                                     allTopics, masteryMap),
            1, masteryMap, count)
     ELSE afterReviews

\* selectNextTasks(input, count, now)
SelectNextTasks(input, count) == InterleaveBySections(SelectTasks(input, count))


----------------------------------------------------------------------------
(* Claims about the record-attempt route *)

EffectRank(tag) ==
  CASE tag = "attempt" -> 1
    [] tag = "masteryCreate" -> 2
    [] tag = "mastery" -> 3
    [] tag = "queue" -> 4
    [] tag = "credit" -> 5

\* the row of topic t in a table, as a list of at most one row
RowOf(tbl, t) == IF t \in DOMAIN tbl THEN <<tbl[t]>> ELSE <<>>

\* C4: a request writes in this order: the attempt fact, the practised
\* topic's mastery record, its review-queue entry, and only then, and only for
\* a correct attempt, the implicit credits; a finished request on a topic has
\* made the first three writes.
C4_EffectsInOrder ==
  \A r \in Requests :
    LET e == effects[r] IN
    /\ \A i, j \in 1..Len(e) :
         i < j => /\ EffectRank(e[i]) <= EffectRank(e[j])
                  /\ EffectRank(e[i]) = EffectRank(e[j]) => e[i] = "credit"
    /\ e # <<>> => e[1] = "attempt"
    /\ InList(e, "queue") => InList(e, "mastery")
    /\ InList(e, "credit") => InList(e, "queue") /\ req[r].isCorrect
    /\ (pc[r] = "done" /\ req[r].topicId # NoTopic) =>
         InList(e, "attempt") /\ InList(e, "mastery") /\ InList(e, "queue")

\* a correct attempt has credited an ancestor after its own three writes
C4_Witness ==
  \E r \in Requests :
    /\ pc[r] = "done"
    /\ Len(effects[r]) >= 4
    /\ effects[r][Len(effects[r])] = "credit"

\* C5: no step of a request recording an incorrect attempt on topic T changes
\* the mastery record or the review-queue entry of a topic other than T.
C5_IncorrectAttemptFrame ==
  [][\A r \in Requests :
       (~Settled(r) /\ ~req[r].isCorrect) =>
         \A t \in StoreTopics \ {req[r].topicId} :
           /\ RowOf(mastery', t) = RowOf(mastery, t)
           /\ RowOf(reviewQueue', t) = RowOf(reviewQueue, t)]_vars

\* an incorrect attempt on a topic whose prerequisite has a mastery record
\* has been recorded in full
C5_Witness ==
  \E r \in Requests :
    /\ pc[r] = "done"
    /\ ~req[r].isCorrect
    /\ req[r].topicId \in StoreTopics
    /\ InList(effects[r], "queue")
    /\ \E i \in 1..Len(prerequisites[req[r].topicId]) :
         prerequisites[req[r].topicId][i] \in DOMAIN mastery

----------------------------------------------------------------------------
(* Specification of the task selector: selectNextTasks is a pure function, *)
(* so the initial states range over a family of snapshots and the one      *)
(* action applies it.  A snapshot gives each topic a learning profile,     *)
(* lays the topics out over the sections by a plan, and takes its          *)
(* prerequisite relation from a curriculum shape.                          *)

NumSelTopics == 5
MaxCount == 6

SelTopics == 1..NumSelTopics

\* enum Section
Sections == <<"QUANTITATIVE_REASONING", "VERBAL_REASONING", "DATA_INSIGHTS">>

\* plan k spreads the topics over the first k sections in turn
SectionPlans == 1..Len(Sections)
SectionOf(plan, t) == Sections[((t - 1) % plan) + 1]

\* chain: each topic builds on the one before; fanin: the last topic builds
\* on all the others, which build on nothing; binary: on the two before
Curricula == {"chain", "fanin", "binary"}

\* Topic.prerequisites of topic t in a curriculum
PrerequisitesIn(curriculum, t) ==
  CASE curriculum = "chain" -> IF t > 1 THEN <<t - 1>> ELSE <<>>
    [] curriculum = "fanin" ->
         IF t = NumSelTopics THEN [i \in 1..(NumSelTopics - 1) |-> i] ELSE <<>>
    [] curriculum = "binary" ->
         IF t > 2 THEN <<t - 1, t - 2>> ELSE IF t = 2 THEN <<1>> ELSE <<>>

\* Topic.prerequisiteOf: the other side of the same relation, among the
\* topics present
PrerequisiteOfIn(curriculum, t, present) ==
  SelectSeq(present, LAMBDA u : InList(PrerequisitesIn(curriculum, u), t))

\* untouched: no TopicMastery row, no ReviewQueue row;
\* weakDue: introduced, low retention, due;  strongDue: proficient, due;
\* developing: between the two, reviewed recently
Profiles == {"untouched", "weakDue", "strongDue", "developing"}

\* the rows of a weakDue topic whose Topic row is missing from the topic
\* list (the data inconsistency selectNextTasks skips over)
OrphanProfile == "orphanDue"

MasteryOf(profile, t) ==
  CASE profile \in {"weakDue", OrphanProfile} ->
         [topicId |-> t, masteryLevel |-> (2 * Scale) \div 10,
          practiceCount |-> 2, accuracy7d |-> (5 * Scale) \div 10]
    [] profile = "strongDue" ->
         [topicId |-> t, masteryLevel |-> (6 * Scale) \div 10,
          practiceCount |-> 6, accuracy7d |-> (9 * Scale) \div 10]
    [] profile = "developing" ->
         [topicId |-> t, masteryLevel |-> (4 * Scale) \div 10,
          practiceCount |-> 5, accuracy7d |-> (5 * Scale) \div 10]

QueueItemOf(profile, t) ==
  CASE profile \in {"weakDue", OrphanProfile} ->
         [topicId |-> t, urgency |-> (15 * Scale) \div 10, isDue |-> TRUE]
    [] profile = "strongDue" ->
         [topicId |-> t, urgency |-> (4 * Scale) \div 10, isDue |-> TRUE]
    [] profile = "developing" ->
         [topicId |-> t, urgency |-> 0, isDue |-> FALSE]

\* the snapshot the sessions route hands to selectNextTasks
Snapshot(profile, plan, curriculum) ==
  LET ids == [i \in 1..NumSelTopics |-> i]
      touched == SelectSeq(ids, LAMBDA t : profile[t] # "untouched")
      present == SelectSeq(ids, LAMBDA t : profile[t] # OrphanProfile)
  IN [allTopics |->
        [k \in 1..Len(present) |->
           [id |-> present[k], section |-> SectionOf(plan, present[k]),
            prerequisites |-> PrerequisitesIn(curriculum, present[k]),
            prerequisiteOf |-> PrerequisiteOfIn(curriculum, present[k], present)]],
      allMastery |->
        [k \in 1..Len(touched) |-> MasteryOf(profile[touched[k]], touched[k])],
      reviewQueue |->
        [k \in 1..Len(touched) |-> QueueItemOf(profile[touched[k]], touched[k])]]

\* the profiles a topic may have: only the last topic, on which no other
\* topic builds, may be missing from the topic list
ProfilesOf(t) == IF t = NumSelTopics THEN Profiles \cup {OrphanProfile} ELSE Profiles

SelectInit ==
  /\ \E profile \in [SelTopics -> Profiles \cup {OrphanProfile}],
        plan \in SectionPlans, curriculum \in Curricula :
       /\ \A t \in SelTopics : profile[t] \in ProfilesOf(t)
       /\ selInput = Snapshot(profile, plan, curriculum)
  /\ selCount = NotCalled
  /\ selTasks = <<>>
  /\ prerequisites = StoreGraph
  /\ fireTopic = 0
  /\ credits = <<>>
  /\ StoreIdle
  /\ CallsIdle

CallSelectNextTasks(count) ==
  /\ selCount = NotCalled
  /\ selCount' = count
  /\ selTasks' = SelectNextTasks(selInput, count)
  /\ UNCHANGED selInput
  /\ UNCHANGED <<fireVars, storeVars, callVars>>

\* the slot budgets tried: none, one, half and all of MaxCount
CountChoices == {0, 1, MaxCount \div 2, MaxCount}

SelectNext == \E count \in CountChoices : CallSelectNextTasks(count)

SpecSelect == SelectInit /\ [][SelectNext]_vars

----------------------------------------------------------------------------
(* Reference notions for the selector claims, stated on the snapshot *)

SelTopicIds == {selInput.allTopics[i].id : i \in 1..Len(selInput.allTopics)}
SelTopic(id) == selInput.allTopics[CHOOSE i \in 1..Len(selInput.allTopics) :
                                     selInput.allTopics[i].id = id]
HasRecord(id) == \E i \in 1..Len(selInput.allMastery) : selInput.allMastery[i].topicId = id
RecordLevel(id) ==
  IF HasRecord(id)
  THEN selInput.allMastery[CHOOSE i \in 1..Len(selInput.allMastery) :
                             selInput.allMastery[i].topicId = id].masteryLevel
  ELSE 0
DueEntries == {i \in 1..Len(selInput.reviewQueue) : selInput.reviewQueue[i].isDue}
DueTopics == {selInput.reviewQueue[i].topicId : i \in DueEntries}
TasksOfType(type) == {i \in 1..Len(selTasks) : selTasks[i].taskType = type}

\* every prerequisite has a record at level >= 0.5
Unlocked(id) ==
  \A p \in Range(SelTopic(id).prerequisites) : HasRecord(p) /\ 2 * RecordLevel(p) >= Scale

\* the prerequisite ancestors of a topic, at any depth
RECURSIVE AncestorsFrom(_, _)
AncestorsFrom(found, k) ==
  IF k = 0 THEN found
  ELSE AncestorsFrom(
         found \cup UNION {Range(SelTopic(p).prerequisites) \cap SelTopicIds : p \in found},
         k - 1)
Ancestors(id) ==
  AncestorsFrom(Range(SelTopic(id).prerequisites) \cap SelTopicIds,
                Len(selInput.allTopics))

\* due topics covered by the emitted consolidation tasks
CoveredByConsolidation ==
  UNION {Range(selTasks[i].fireConsolidatesTopics) : i \in TasksOfType("CONSOLIDATION")}

----------------------------------------------------------------------------
(* Claims about the task selector *)

\* C7: every NEW_TOPIC task targets a topic that is unlocked (each of its
\* prerequisites has a mastery record at level >= 0.5), whose own level is
\* below 0.3, and the task's difficulty is EASY.
C7_NewTopicUnlockedLowEasy ==
  \A i \in TasksOfType("NEW_TOPIC") :
    /\ selTasks[i].topicId \in SelTopicIds
    /\ Unlocked(selTasks[i].topicId)
    /\ 10 * RecordLevel(selTasks[i].topicId) < 3 * Scale
    /\ selTasks[i].difficulty = "EASY"

\* a call that returns a new topic with prerequisites next to a locked
\* topic of low level that it leaves out
C7_Witness ==
  /\ selCount = MaxCount
  /\ \E i \in TasksOfType("NEW_TOPIC") : SelTopic(selTasks[i].topicId).prerequisites # <<>>
  /\ \E t \in SelTopicIds :
       /\ ~Unlocked(t)
       /\ ~HasRecord(t)
       /\ \A i \in 1..Len(selTasks) : selTasks[i].topicId # t

\* C8: a CONSOLIDATION task appears only when at least 3 topics are due, it
\* covers at least 2 topics, each of them due; and a topic with exactly one
\* due topic among its prerequisite ancestors is never a CONSOLIDATION task.
C8_ConsolidationCoversTwoDue ==
  /\ \A i \in TasksOfType("CONSOLIDATION") :
       /\ Cardinality(DueTopics) >= 3
       /\ Cardinality(Range(selTasks[i].fireConsolidatesTopics)) >= 2
       /\ Range(selTasks[i].fireConsolidatesTopics) \subseteq DueTopics
  /\ \A t \in SelTopicIds :
       Cardinality(Ancestors(t) \cap DueTopics) = 1 =>
         \A i \in TasksOfType("CONSOLIDATION") : selTasks[i].topicId # t

\* a call that returns a consolidation task while another developing topic,
\* not due itself, has exactly one due ancestor
C8_Witness ==
  /\ TasksOfType("CONSOLIDATION") # {}
  /\ \E t \in SelTopicIds \ DueTopics :
       /\ Cardinality(Ancestors(t) \cap DueTopics) = 1
       /\ 10 * RecordLevel(t) >= 3 * Scale

\* C9: when the due entries minus the due topics covered by the emitted
\* consolidation tasks number 5 or more, no NEW_TOPIC task is returned.
C9_NoNewTopicOnBacklog ==
  Cardinality(DueEntries) - Cardinality(CoveredByConsolidation) >= 5 =>
    TasksOfType("NEW_TOPIC") = {}

\* a call with a backlog of 5, a slot left over and an unlocked topic of
\* low level to fill it with
C9_Witness ==
  /\ selCount # NotCalled
  /\ Cardinality(DueEntries) - Cardinality(CoveredByConsolidation) >= 5
  /\ Len(selTasks) < selCount
  /\ \E t \in SelTopicIds : Unlocked(t) /\ 10 * RecordLevel(t) < 3 * Scale

\* C10: when two adjacent tasks share a section, every later task has that
\* section too.
C10_SameSectionOnlyAtTail ==
  \A i \in 1..(Len(selTasks) - 1) :
    selTasks[i].section = selTasks[i + 1].section =>
      \A j \in (i + 1)..Len(selTasks) : selTasks[j].section = selTasks[i].section

\* a returned list that alternates sections and ends in a run of one section
C10_Witness ==
  /\ Len(selTasks) >= 4
  /\ selTasks[1].section # selTasks[2].section
  /\ selTasks[Len(selTasks) - 1].section = selTasks[Len(selTasks)].section
  /\ \E i \in 1..(Len(selTasks) - 1) :
       selTasks[i].urgency < selTasks[i + 1].urgency

\* C11: for every snapshot and every count N, 0 included, at most N tasks
\* are returned, the three task types counted together.
C11_AtMostCountTasks ==
  selCount # NotCalled => Len(selTasks) <= selCount

\* a call whose budget is used up while a due topic is left without a task
C11_Witness ==
  /\ selCount > 0
  /\ Len(selTasks) = selCount
  /\ TasksOfType("REVIEW") # {}
  /\ \E t \in DueTopics \ CoveredByConsolidation :
       \A i \in 1..Len(selTasks) : selTasks[i].topicId # t

\* C12: a due topic in the covered set of an emitted CONSOLIDATION task is
\* never also the target of a REVIEW task of the same result.
C12_CoveredNotReviewed ==
  \A i \in TasksOfType("REVIEW") : selTasks[i].topicId \notin CoveredByConsolidation

\* a result with a consolidation task, a review task for an uncovered due
\* topic, and slots left over that the covered topics could have taken
C12_Witness ==
  /\ CoveredByConsolidation # {}
  /\ TasksOfType("REVIEW") # {}
  /\ Len(selTasks) < selCount

\* due entries whose topic no emitted consolidation task covers
UncoveredDue ==
  {i \in DueEntries : selInput.reviewQueue[i].topicId \notin CoveredByConsolidation}
TopicExists(i) == selInput.reviewQueue[i].topicId \in SelTopicIds
HasReview(i) ==
  \E j \in TasksOfType("REVIEW") : selTasks[j].topicId = selInput.reviewQueue[i].topicId

\* with fewer than N consolidation and review tasks, every uncovered due
\* entry whose topic exists has a REVIEW task
AllDueReviewed ==
  (/\ selCount # NotCalled
   /\ Cardinality(TasksOfType("REVIEW") \cup TasksOfType("CONSOLIDATION")) < selCount)
  => \A i \in UncoveredDue : TopicExists(i) => HasReview(i)

\* the slot budget has left an uncovered due entry of an existing topic out
BudgetCutsReviews ==
  /\ selCount # NotCalled
  /\ \E i \in UncoveredDue : TopicExists(i) /\ ~HasReview(i)

\* C13 as stated: the quota never truncates due reviews, and when the
\* budget cuts reviews off every emitted REVIEW is at least as urgent as
\* every omitted uncovered due entry.
C13_AsStated ==
  /\ AllDueReviewed
  /\ BudgetCutsReviews =>
       \A j \in TasksOfType("REVIEW") : \A i \in UncoveredDue :
         ~HasReview(i) => selTasks[j].urgency >= selInput.reviewQueue[i].urgency

\* C13, amended: the same, the omitted entries being those whose topic
\* exists (an entry of a missing topic is passed over whatever its urgency).
C13_DueReviewsNotTruncated ==
  /\ AllDueReviewed
  /\ BudgetCutsReviews =>
       \A j \in TasksOfType("REVIEW") : \A i \in UncoveredDue :
         (TopicExists(i) /\ ~HasReview(i)) =>
           selTasks[j].urgency >= selInput.reviewQueue[i].urgency

\* a budget that cuts a due review off after more reviews than 60% of it,
\* the reviews kept including one more urgent than the one cut
C13_Witness ==
  /\ BudgetCutsReviews
  /\ 10 * Cardinality(TasksOfType("REVIEW")) > 6 * selCount
  /\ \E j \in TasksOfType("REVIEW") : \E i \in UncoveredDue :
       /\ TopicExists(i) /\ ~HasReview(i)
       /\ selTasks[j].urgency > selInput.reviewQueue[i].urgency

----------------------------------------------------------------------------
(* Claims about the ranges of the stored values *)

\* C14: from an empty store, after any recorded attempts, every mastery
\* record has level in [0,1] and stability factor >= 0.5, and every
\* review-queue entry has an interval between 30 minutes and 90 days.
C14_StoredValuesInRange ==
  /\ \A t \in DOMAIN mastery :
       /\ mastery[t].masteryLevel >= 0
       /\ mastery[t].masteryLevel <= Scale
       /\ 2 * mastery[t].stabilityFactor >= Scale
  /\ \A t \in DOMAIN reviewQueue :
       /\ reviewQueue[t].intervalMs >= MIN_INTERVAL
       /\ reviewQueue[t].intervalMs <= MAX_INTERVAL

\* a store in which one topic has failed an attempt (stability on its floor),
\* another has been raised by an implicit credit, and the queue has entries
C14_Witness ==
  /\ \E t \in DOMAIN mastery : 2 * mastery[t].stabilityFactor = Scale
  /\ \E r \in Requests : InList(effects[r], "credit")
  /\ \E t \in DOMAIN mastery : mastery[t].masteryLevel > 0
  /\ DOMAIN reviewQueue # {}

----------------------------------------------------------------------------
(* Claims about what a recorded attempt stores *)

\* the rolling accuracy of topic t over the attempts persisted for it
PersistedAccuracy(t, windowDays) ==
  CalculateRollingAccuracy(SelectSeq(attempts, LAMBDA a : a.topicId = t), windowDays, now)

\* C21: once the explicit update of an attempt on topic T is written, T's
\* accuracy7d is the share of correct attempts among the attempts on T
\* persisted within the last 7 days, the new attempt counted once; likewise
\* accuracy30d over 30 days.
C21_RollingAccuracyExact ==
  \A r \in Requests :
    pc[r] = "queueUpsert" =>
      /\ mastery[req[r].topicId].accuracy7d = PersistedAccuracy(req[r].topicId, 7)
      /\ mastery[req[r].topicId].accuracy30d = PersistedAccuracy(req[r].topicId, 30)

\* C22: when an explicit attempt is recorded for a topic that already has a
\* review-queue entry, the interval written to the entry is
\* computeNextInterval applied to the interval the entry held.
C22_IntervalFromStoredInterval ==
  [][\A r \in Requests :
       (/\ pc[r] = "queueUpsert"
        /\ pc'[r] # "queueUpsert"
        /\ req[r].topicId \in DOMAIN reviewQueue) =>
         reviewQueue'[req[r].topicId].intervalMs =
           ComputeNextInterval(reviewQueue[req[r].topicId].intervalMs,
                               mastery[req[r].topicId].accuracy7d,
                               mastery[req[r].topicId].masteryLevel)]_vars

\* C23: in every reachable state of the store, each mastery record's stage
\* is the stage derived from its level by the thresholds 0.9 fluent, 0.75
\* mastered, 0.5 proficient, 0.3 developing, 0.1 introduced, else unknown.
C23_StageDerivedFromLevel ==
  \A t \in DOMAIN mastery :
    mastery[t].masteryStage = GetMasteryStage(mastery[t].masteryLevel)

\* a request has just written an implicit credit to a record that is past
\* the unknown and introduced stages, and an explicit update has made
\* another record proficient
C23_Witness ==
  /\ \E r \in Requests :
       /\ effects[r] # <<>>
       /\ effects[r][Len(effects[r])] = "credit"
       /\ \E i \in 1..Len(prerequisites[req[r].topicId]) :
            LET p == prerequisites[req[r].topicId][i]
            IN /\ p \in DOMAIN mastery
               /\ mastery[p].masteryStage = "DEVELOPING"
               /\ mastery[p].masteryLevel > (3 * Scale) \div 10
  /\ \E t \in DOMAIN mastery : mastery[t].masteryStage = "PROFICIENT"

\* request r is taking the step at label `label`
Steps(r, label) == pc[r] = label /\ pc'[r] # label

\* C24: applying an implicit credit to an ancestor changes only that
\* ancestor's mastery level and stage (practice count, average time, rolling
\* accuracies, stability, last-practised and next-review times, every other
\* record and the whole review queue stay as they are), whereas an explicit
\* update raises the practised topic's practice count by exactly 1.
C24_ImplicitCreditFrame ==
  [][\A r \in Requests :
       /\ Steps(r, "creditUpdate") =>
            LET a == Head(loc[r].credits).topicId
            IN /\ reviewQueue' = reviewQueue
               /\ attempts' = attempts
               /\ DOMAIN mastery' = DOMAIN mastery
               /\ \A t \in DOMAIN mastery \ {a} : mastery'[t] = mastery[t]
               /\ mastery'[a] = [mastery[a] EXCEPT
                                   !.masteryLevel = mastery'[a].masteryLevel,
                                   !.masteryStage = mastery'[a].masteryStage]
       /\ Steps(r, "masteryUpdate") =>
            mastery'[req[r].topicId].practiceCount =
              mastery[req[r].topicId].practiceCount + 1]_vars

\* an implicit credit has just raised the level of an ancestor that has been
\* practised and has a review-queue entry
C24_Witness ==
  \E r \in Requests :
    /\ effects[r] # <<>>
    /\ effects[r][Len(effects[r])] = "credit"
    /\ \E a \in DOMAIN mastery \cap DOMAIN reviewQueue :
         /\ InList(prerequisites[req[r].topicId], a)
         /\ mastery[a].practiceCount = 1
         /\ mastery[a].avgTimeMs > 0
         /\ mastery[a].lastPracticedAt # Never
         /\ mastery[a].masteryLevel > (3 * Scale) \div 10
         /\ mastery[req[r].topicId].practiceCount = 2

\* C25: recording a correct attempt never lowers the mastery level of a
\* prerequisite ancestor: the level an implicit credit writes is at least
\* the level the ancestor had.
C25_CreditNeverLowersLevel ==
  [][\A r \in Requests :
       Steps(r, "creditUpdate") =>
         LET a == Head(loc[r].credits).topicId
         IN mastery'[a].masteryLevel >= mastery[a].masteryLevel]_vars

\* the attempt facts persisted for topic t
AttemptFacts(t) == Cardinality({i \in 1..Len(attempts) : attempts[i].topicId = t})

\* the practice count stored for topic t
PracticeCountOf(t) == IF t \in DOMAIN mastery THEN mastery[t].practiceCount ELSE 0

AllSettled == \A r \in Requests : Settled(r)

\* C27 as stated: for any interleaving of record-attempt requests, once all
\* have completed no request has failed and each topic's practice count is
\* the number of attempt facts persisted for it.
C27_AsStated ==
  AllSettled =>
    /\ \A r \in Requests : pc[r] # "failed"
    /\ \A t \in StoreTopics : PracticeCountOf(t) = AttemptFacts(t)

\* C27, amended: the same, for requests processed one after another; under
\* interleaving the practice count never exceeds the number of attempt
\* facts.
C27_SerializedNoLostUpdate ==
  /\ \A t \in StoreTopics : PracticeCountOf(t) <= AttemptFacts(t)
  /\ (AllSettled /\ ~overlapped) =>
       /\ \A r \in Requests : pc[r] # "failed"
       /\ \A t \in StoreTopics : PracticeCountOf(t) = AttemptFacts(t)

\* two requests on the same topic have completed one after the other
C27_Witness ==
  /\ AllSettled
  /\ ~overlapped
  /\ \E t \in StoreTopics : PracticeCountOf(t) = 2 /\ AttemptFacts(t) = 2

----------------------------------------------------------------------------
(* Specification of direct calls of the library's pure functions: each    *)
(* action draws the arguments of one function from a bounded set and      *)
(* records what it returns.                                               *)

MaxPractice == 6

Tenths == {(k * Scale) \div 10 : k \in 0..10}

\* stored stability factors, values below the 0.5 floor included
StabilityChoices == {0, Scale \div 4, (4 * Scale) \div 10, Scale \div 2, Scale, 3 * Scale}

CallsInit ==
  /\ CallsIdle
  /\ SelectorIdle
  /\ prerequisites = StoreGraph
  /\ fireTopic = 0
  /\ credits = <<>>
  /\ StoreIdle

CallUpdateStability(currentStability, accuracyScore, practiceCount) ==
  /\ callName = "none"
  /\ callName' = "updateStability"
  /\ callArgs' = [currentStability |-> currentStability,
                  accuracyScore |-> accuracyScore,
                  practiceCount |-> practiceCount]
  /\ callResult' = UpdateStability(currentStability, accuracyScore, practiceCount)
  /\ UNCHANGED <<fireVars, storeVars, selVars>>

\* enum Difficulty
Difficulties == {"EASY", "MEDIUM", "HARD"}

\* accuracies in steps of 0.01
Hundredths == {(k * Scale) \div 100 : k \in 0..100}

CallRecommendDifficulty(currentDifficulty, recentAccuracy, practiceCount) ==
  /\ callName = "none"
  /\ callName' = "recommendDifficulty"
  /\ callArgs' = [currentDifficulty |-> currentDifficulty,
                  recentAccuracy |-> recentAccuracy,
                  practiceCount |-> practiceCount]
  /\ callResult' = RecommendDifficulty(currentDifficulty, recentAccuracy, practiceCount)
  /\ UNCHANGED <<fireVars, storeVars, selVars>>

CallGetScaffoldLevel(masteryLevel, recentAccuracy, recentAttemptCount) ==
  /\ callName = "none"
  /\ callName' = "getScaffoldLevel"
  /\ callArgs' = [masteryLevel |-> masteryLevel,
                  recentAccuracy |-> recentAccuracy,
                  recentAttemptCount |-> recentAttemptCount]
  /\ callResult' = GetScaffoldLevel(masteryLevel, recentAccuracy, recentAttemptCount)
  /\ UNCHANGED <<fireVars, storeVars, selVars>>

----------------------------------------------------------------------------
(* question-picker.ts.  The bank maps the ids of one topic's questions to  *)
(* [difficulty, attempts]; an attempt is [isCorrect, recent], recent       *)
(* meaning createdAt >= now - 48 hours.  findFirst without a complete      *)
(* order returns any matching row.                                         *)

NumQuestions == 3
QuestionIds == 1..NumQuestions

\* pickQuestion returned null
NoQuestion == 0

\* a fallback order that also tries the harder levels
DifficultyFallbackAll(difficulty) == <<"HARD", "MEDIUM", "EASY">>

\* DIFFICULTY_FALLBACK[difficulty]
DifficultyFallback(difficulty) ==
  CASE difficulty = "HARD" -> <<"HARD", "MEDIUM", "EASY">>
    [] difficulty = "MEDIUM" -> <<"MEDIUM", "EASY">>
    [] difficulty = "EASY" -> <<"EASY">>

\* one pass of the loop of pickQuestion: the ids it may return for `diff`,
\* none if it goes on to the next level
PickAt(bank, diff, excludeQuestionIds) ==
  LET atLevel == {q \in DOMAIN bank : bank[q].difficulty = diff}
      recentCorrect ==
        {q \in atLevel : \E i \in 1..Len(bank[q].attempts) :
           bank[q].attempts[i].isCorrect /\ bank[q].attempts[i].recent}
      excludeIds == excludeQuestionIds \cup recentCorrect
      unattempted == {q \in atLevel \ excludeIds : bank[q].attempts = <<>>}
      incorrect ==
        {q \in atLevel \ excludeIds : \E i \in 1..Len(bank[q].attempts) :
           ~bank[q].attempts[i].isCorrect}
      leastAttempted ==
        {q \in incorrect : \A o \in incorrect :
           Len(bank[q].attempts) <= Len(bank[o].attempts)}
      any == atLevel \ excludeIds
  IN IF unattempted # {} THEN unattempted
     ELSE IF incorrect # {} THEN leastAttempted
     ELSE any

\* the loop over the fallback levels, from index i on
RECURSIVE PickFrom(_, _, _, _)
PickFrom(bank, fallbacks, i, excludeQuestionIds) ==
  IF i > Len(fallbacks) THEN {NoQuestion}
  ELSE IF PickAt(bank, fallbacks[i], excludeQuestionIds) # {}
  THEN PickAt(bank, fallbacks[i], excludeQuestionIds)
  ELSE PickFrom(bank, fallbacks, i + 1, excludeQuestionIds)

\* pickQuestion(topicId, difficulty, excludeQuestionIds): the ids it may return
PickQuestion(bank, difficulty, excludeQuestionIds) ==
  PickFrom(bank, DifficultyFallback(difficulty), 1, excludeQuestionIds)

\* the attempts a question may have had: none, a wrong one, a right one
\* more than 48 hours ago, a right one since
Histories ==
  {<<>>,
   <<[isCorrect |-> FALSE, recent |-> TRUE]>>,
   <<[isCorrect |-> TRUE, recent |-> FALSE]>>,
   <<[isCorrect |-> TRUE, recent |-> TRUE]>>}

ExcludeChoices == {{}, {1}}

CallPickQuestion(bank, difficulty, excludeQuestionIds) ==
  /\ callName = "none"
  /\ callName' = "pickQuestion"
  /\ callArgs' = [bank |-> bank, difficulty |-> difficulty,
                  excludeQuestionIds |-> excludeQuestionIds]
  /\ \E id \in PickQuestion(bank, difficulty, excludeQuestionIds) : callResult' = id
  /\ UNCHANGED <<fireVars, storeVars, selVars>>

\* one call per behaviour: nothing is enabled after it
CallsNext ==
  /\ callName = "none"
  /\ \/ \E st \in StabilityChoices, acc \in Tenths, n \in 0..MaxPractice :
          CallUpdateStability(st, acc, n)
     \/ \E d \in Difficulties, acc \in Hundredths, n \in 0..MaxPractice :
          CallRecommendDifficulty(d, acc, n)
     \/ \E level \in Tenths, acc \in Tenths \cup {NoAccuracy}, n \in 0..MaxPractice :
          CallGetScaffoldLevel(level, acc, n)
     \/ \E bank \in [QuestionIds -> [difficulty : Difficulties, attempts : Histories]],
           d \in Difficulties, ex \in ExcludeChoices :
          CallPickQuestion(bank, d, ex)

SpecCalls == CallsInit /\ [][CallsNext]_vars

\* C15: updateStability returns at least 0.5 for every current stability
\* (a stored value below 0.5 included), accuracy in [0,1] and practice
\* count >= 0, in the success branch and in the failure branch.
C15_StabilityAtLeastHalf ==
  callName = "updateStability" => 2 * callResult >= Scale

\* the levels of difficulty in order
DifficultyRank(d) == CASE d = "EASY" -> 1 [] d = "MEDIUM" -> 2 [] d = "HARD" -> 3

\* C16: recommendDifficulty holds the level with fewer than 5 attempts;
\* otherwise accuracy > 0.85 gives the next harder level (HARD stays), accuracy
\* < 0.70 the next easier (EASY stays), and accuracy in [0.70, 0.85] holds the
\* level with inOptimalZone true; outside the band inOptimalZone is false;
\* the result is never more than one step from the current level.
C16_DifficultyTable ==
  callName = "recommendDifficulty" =>
    LET cur == DifficultyRank(callArgs.currentDifficulty)
        rec == DifficultyRank(callResult.recommended)
        acc == callArgs.recentAccuracy
    IN /\ callArgs.practiceCount < 5 => rec = cur
       /\ (callArgs.practiceCount >= 5 /\ 100 * acc > 85 * Scale) =>
            rec = (IF cur = 3 THEN 3 ELSE cur + 1) /\ ~callResult.inOptimalZone
       /\ (callArgs.practiceCount >= 5 /\ 100 * acc < 70 * Scale) =>
            rec = (IF cur = 1 THEN 1 ELSE cur - 1) /\ ~callResult.inOptimalZone
       /\ (callArgs.practiceCount >= 5 /\ 100 * acc >= 70 * Scale
             /\ 100 * acc <= 85 * Scale) =>
            rec = cur /\ callResult.inOptimalZone
       /\ rec - cur \in {-1, 0, 1}

\* scenario D: accuracy 0.92 after 6 attempts at MEDIUM recommends HARD
C16_Witness ==
  /\ callName = "recommendDifficulty"
  /\ callArgs = [currentDifficulty |-> "MEDIUM",
                 recentAccuracy |-> (92 * Scale) \div 100,
                 practiceCount |-> MaxPractice]
  /\ callResult.recommended = "HARD"
  /\ ~callResult.inOptimalZone

\* C17: with an insufficient signal (fewer than 3 recent attempts, or no
\* accuracy) the support level is level 1 whatever the mastery level, and the
\* calibrator (fewer than 5 attempts) holds the current difficulty.
C17_SafeDefaults ==
  /\ (/\ callName = "getScaffoldLevel"
      /\ \/ callArgs.recentAttemptCount < 3
         \/ callArgs.recentAccuracy = NoAccuracy)
     => callResult = 1
  /\ (callName = "recommendDifficulty" /\ callArgs.practiceCount < 5)
     => callResult.recommended = callArgs.currentDifficulty

\* questions of level d that are neither excluded by the caller nor
\* answered correctly in the last 48 hours
Pickable(d) ==
  {q \in DOMAIN callArgs.bank :
     /\ callArgs.bank[q].difficulty = d
     /\ q \notin callArgs.excludeQuestionIds
     /\ ~\E i \in 1..Len(callArgs.bank[q].attempts) :
          callArgs.bank[q].attempts[i].isCorrect /\ callArgs.bank[q].attempts[i].recent}

\* C18: pickQuestion never returns a question harder than requested: it
\* returns one of the hardest level, at or below the requested one, that has
\* a question left, and null only when no such level has one.
C18_NeverHarderThanRequested ==
  callName = "pickQuestion" =>
    LET requested == DifficultyRank(callArgs.difficulty)
    IN IF callResult = NoQuestion
       THEN \A d \in Difficulties : DifficultyRank(d) <= requested => Pickable(d) = {}
       ELSE LET got == callArgs.bank[callResult].difficulty
            IN /\ DifficultyRank(got) <= requested
               /\ callResult \in Pickable(got)
               /\ \A d \in Difficulties :
                    (DifficultyRank(got) < DifficultyRank(d) /\ DifficultyRank(d) <= requested)
                      => Pickable(d) = {}

\* a MEDIUM request answered with an EASY question while a HARD question is
\* free and the only MEDIUM one was answered correctly within 48 hours
C18_Witness ==
  /\ callName = "pickQuestion"
  /\ callArgs.difficulty = "MEDIUM"
  /\ callResult # NoQuestion
  /\ callArgs.bank[callResult].difficulty = "EASY"
  /\ Pickable("HARD") # {}
  /\ \E q \in DOMAIN callArgs.bank :
       callArgs.bank[q].difficulty = "MEDIUM" /\ q \notin callArgs.excludeQuestionIds

----------------------------------------------------------------------------
(* The chat route's GET handler (next tasks): a read-only request over the *)
(* stored topics, mastery records, review queue and questions.             *)

\* no topicId parameter in the request
NoFilter == 0

\* the questions of topic t: one unattempted EASY question, whose id is t,
\* if the topic is stocked
BankOf(stocked, t) ==
  IF t \in stocked
  THEN [q \in {t} |-> [difficulty |-> "EASY", attempts |-> <<>>]]
  ELSE [q \in {} |-> [difficulty |-> "EASY", attempts |-> <<>>]]

\* Math.round((reviewCount / validTasks.length) * 100)
ReviewPercentage(reviewCount, nValid) ==
  IF nValid > 0 THEN (200 * reviewCount + nValid) \div (2 * nValid) ELSE 0

\* route.ts 101-123: each task gets a question; tasks without one are dropped
\* (a bank of one question leaves pickQuestion a single answer)
ResolveQuestions(tasks, stocked) ==
  LET questionId ==
        [i \in 1..Len(tasks) |->
           CHOOSE id \in PickQuestion(BankOf(stocked, tasks[i].topicId),
                                      tasks[i].difficulty, {}) : TRUE]
  IN SelectSeq([i \in 1..Len(tasks) |-> [task |-> tasks[i], questionId |-> questionId[i]]],
               LAMBDA t : t.questionId # NoQuestion)

\* route.ts 126-150: the counters reported next to the tasks
NextTasksMeta(tasks, validTasks, queue) ==
  LET OfType(type) == Cardinality({i \in 1..Len(tasks) : tasks[i].taskType = type})
  IN [dueReviewCount |-> Len(SelectSeq(queue, LAMBDA r : r.isDue)),
      frontierTopicCount |-> OfType("NEW_TOPIC"),
      reviewPercentage |->
        ReviewPercentage(OfType("REVIEW") + OfType("CONSOLIDATION"), Len(validTasks)),
      consolidationsUsed |-> OfType("CONSOLIDATION")]

NextTasksResponse(tasks, validTasks, queue) ==
  [tasks |-> validTasks, meta |-> NextTasksMeta(tasks, validTasks, queue)]

NextTasksResolved(tasks, stocked, queue) ==
  NextTasksResponse(tasks, ResolveQuestions(tasks, stocked), queue)

FilterQueue(queue, topicIdFilter) ==
  IF topicIdFilter # NoFilter
  THEN SelectSeq(queue, LAMBDA r : r.topicId = topicIdFilter)
  ELSE queue

\* GET: the response for a snapshot, a count and a topic filter
GetNextTasks(input, count, topicIdFilter, stocked) ==
  NextTasksResolved(
    SelectNextTasks([allTopics |-> input.allTopics,
                     allMastery |-> input.allMastery,
                     reviewQueue |-> FilterQueue(input.reviewQueue, topicIdFilter)], count),
    stocked, input.reviewQueue)

\* the curriculum and section plan of the stored topics
StoredCurriculum == "chain"
StoredPlan == 2

\* the sets of topics that have a question: all, or all but the first
StockChoices == {SelTopics, SelTopics \ {1}}

NextTasksInit ==
  /\ \E profile \in [SelTopics -> Profiles] :
       selInput = Snapshot(profile, StoredPlan, StoredCurriculum)
  /\ selCount = NotCalled
  /\ selTasks = <<>>
  /\ CallsIdle
  /\ prerequisites = StoreGraph
  /\ fireTopic = 0
  /\ credits = <<>>
  /\ StoreIdle

GetNextTasksRequest(count, topicIdFilter, stocked) ==
  /\ callName = "none"
  /\ callName' = "getNextTasks"
  /\ callArgs' = [count |-> count, topicIdFilter |-> topicIdFilter, stocked |-> stocked]
  /\ callResult' = GetNextTasks(selInput, count, topicIdFilter, stocked)
  /\ UNCHANGED <<fireVars, storeVars, selVars>>

NextTasksNext ==
  \E count \in {1, MaxCount}, topicIdFilter \in SelTopics \cup {NoFilter},
     stocked \in StockChoices :
    GetNextTasksRequest(count, topicIdFilter, stocked)

SpecNextTasks == NextTasksInit /\ [][NextTasksNext]_vars

\* C19: with a topic filter X, every task of the response targets topic X.
C19_FilterScopesTasks ==
  (callName = "getNextTasks" /\ callArgs.topicIdFilter # NoFilter) =>
    \A i \in 1..Len(callResult.tasks) :
      callResult.tasks[i].task.topicId = callArgs.topicIdFilter

----------------------------------------------------------------------------
(* Claim about a review-queue entry whose topic is missing *)

\* C20: when a due entry names a topic absent from the topic list, no task
\* is emitted for that id and the other due entries still get their tasks:
\* the REVIEW tasks are as many as the slots left by the consolidation tasks
\* allow, up to one per uncovered due entry whose topic exists.
C20_MissingTopicSkipped ==
  \A o \in DueEntries :
    (selCount # NotCalled /\ ~TopicExists(o)) =>
      /\ \A i \in 1..Len(selTasks) :
           selTasks[i].topicId # selInput.reviewQueue[o].topicId
      /\ Cardinality(TasksOfType("REVIEW")) =
           Min(selCount - Cardinality(TasksOfType("CONSOLIDATION")),
               Cardinality({i \in UncoveredDue : TopicExists(i)}))

\* a call with slots to spare in which the entry of the missing topic is more
\* urgent than a due entry that gets its REVIEW task
C20_Witness ==
  /\ selCount = MaxCount
  /\ Len(selTasks) < selCount
  /\ \E o \in DueEntries : \E j \in TasksOfType("REVIEW") :
       /\ ~TopicExists(o)
       /\ selInput.reviewQueue[o].urgency > selTasks[j].urgency

\* C26: no returned list has two tasks targeting the same topic.
C26_NoTopicTwice ==
  selCount # NotCalled =>
    \A i, j \in 1..Len(selTasks) :
      i # j => selTasks[i].topicId # selTasks[j].topicId

\* the snapshot without the review-queue entries whose topic is absent from
\* the topic list
WithoutDanglingEntries(input) ==
  [input EXCEPT !.reviewQueue =
     SelectSeq(input.reviewQueue,
               LAMBDA r : \E k \in 1..Len(input.allTopics) :
                            input.allTopics[k].id = r.topicId)]

\* C30: a due review-queue entry whose topic is absent from the topic list
\* has no effect: the task list is the one selectNextTasks returns for the
\* same snapshot without that entry.
C30_DanglingEntryNoEffect ==
  selCount # NotCalled =>
    selTasks = SelectNextTasks(WithoutDanglingEntries(selInput), selCount)

\* the returned tasks that are reviews or consolidations
ReturnedReviews ==
  {i \in 1..Len(callResult.tasks) :
     callResult.tasks[i].task.taskType \in {"REVIEW", "CONSOLIDATION"}}

\* C29: the reviewPercentage of a get-next-tasks response is between 0 and
\* 100 and is the rounded share of REVIEW and CONSOLIDATION tasks among the
\* tasks returned.
C29_ReviewPercentageOfReturned ==
  callName = "getNextTasks" =>
    /\ callResult.meta.reviewPercentage >= 0
    /\ callResult.meta.reviewPercentage <= 100
    /\ callResult.meta.reviewPercentage =
         ReviewPercentage(Cardinality(ReturnedReviews), Len(callResult.tasks))

----------------------------------------------------------------------------
(* A recommendation followed by recorded attempts.  The store is the one   *)
(* left by a learner who answered two Word Problems questions right, one   *)
(* question each on Algebra, Arithmetic and Geometry, and, eight days      *)
(* later, a Word Problems question wrong: Algebra, Arithmetic and Geometry *)
(* are due, Word Problems is developing and not due.  Probability has not  *)
(* been touched.  The next tasks are selected from this store as the       *)
(* routes select them, and further attempts are recorded.                  *)

\* record-attempt requests after the recommendation
MaxFollowUps == 1
FollowUps == 1..MaxFollowUps

\* Word Problems (1) requires Algebra (2) and Arithmetic (3), directly or in
\* a chain; Geometry (4) and Probability (5) stand alone
LearnerGraphs ==
  {<<(<<2, 3>>), (<<>>), (<<>>), (<<>>), (<<>>)>>,
   <<(<<2>>), (<<3>>), (<<>>), (<<>>), (<<>>)>>}

\* updateTopicMasteryImplicit over the credits cs, on the table m
RECURSIVE ApplyCredits(_, _)
ApplyCredits(m, cs) ==
  IF cs = <<>> THEN m
  ELSE LET credit == Head(cs)
       IN IF SkipsImplicit(credit.topicId \in DOMAIN m)
          THEN ApplyCredits(m, Tail(cs))
          ELSE ApplyCredits(
                 WriteRow(m, credit.topicId,
                          ImplicitData(m[credit.topicId],
                                       ImplicitLevel(m[credit.topicId].masteryLevel,
                                                     credit.weight))),
                 Tail(cs))

\* POST run from start to end with no other request in between: the tables
\* after recording one attempt on topicId at time t
RecordAttempt(store, graph, topicId, isCorrect, timeSpentMs, t) ==
  LET allAttempts == Append(store.attempts,
                            [topicId |-> topicId, isCorrect |-> isCorrect, createdAt |-> t])
      m == IF topicId \in DOMAIN store.mastery THEN store.mastery[topicId]
           ELSE DefaultMastery
      recent == SelectSeq(allAttempts,
                  LAMBDA a : a.topicId = topicId /\ a.createdAt >= t - 30 * Day)
      u == ExplicitUpdate(m, isCorrect, timeSpentMs, Selected(recent), t)
      updated == WriteRow(store.mastery, topicId, u.row)
      cs == IF Propagates(isCorrect) THEN ComputeFIReCredits(graph, topicId) ELSE <<>>
  IN [attempts |-> allAttempts,
      mastery |-> ApplyCredits(updated, cs),
      reviewQueue |-> WriteRow(store.reviewQueue, topicId,
                        [scheduledAt |-> u.nextReviewAt,
                         intervalMs  |-> u.newInterval,
                         urgency     |-> 0])]

\* the tables after the attempts of `history`, recorded one after another
RECURSIVE RecordAll(_, _, _)
RecordAll(store, graph, history) ==
  IF history = <<>> THEN store
  ELSE RecordAll(RecordAttempt(store, graph, Head(history).topicId,
                               Head(history).isCorrect, 45000, Head(history).at),
                 graph, Tail(history))

EmptyStore == [attempts |-> <<>>, mastery |-> <<>>, reviewQueue |-> <<>>]

\* the time of the learner's last attempt
LearnerNow == 8 * Day

\* the learner's attempts; c2, c3, c4: whether the answers on Algebra,
\* Arithmetic and Geometry were right
LearnerHistory(c2, c3, c4) ==
  <<[topicId |-> 1, isCorrect |-> TRUE, at |-> 0],
    [topicId |-> 1, isCorrect |-> TRUE, at |-> 0],
    [topicId |-> 2, isCorrect |-> c2, at |-> 0],
    [topicId |-> 3, isCorrect |-> c3, at |-> 0],
    [topicId |-> 4, isCorrect |-> c4, at |-> 0],
    [topicId |-> 1, isCorrect |-> FALSE, at |-> LearnerNow]>>

\* Math.exp(-x) for x >= 0, to four decimals
RECURSIVE ExpNeg(_)
ExpNeg(x) ==
  IF x >= 10 * Scale THEN 0
  ELSE IF x <= Scale \div 4
  THEN LET x2 == (x * x) \div Scale
           x3 == (x2 * x) \div Scale
           x4 == (x3 * x) \div Scale
       IN Scale - x + x2 \div 2 - x3 \div 6 + x4 \div 24
  ELSE LET h == ExpNeg(x \div 2) IN (h * h) \div Scale

\* calculateRetention(lastPracticedAt, stabilityFactor, now)
CalculateRetention(lastPracticedAt, stabilityFactor, t) ==
  LET elapsedDays == ((t - lastPracticedAt) * Scale) \div Day
      retention == ExpNeg((elapsedDays * Scale) \div stabilityFactor)
  IN Max(0, Min(Scale, retention))

\* calculateUrgency(retention, scheduledAt, now)
CalculateUrgency(retention, scheduledAt, t) ==
  LET overdue == Max(0, t - scheduledAt)
      overdueFactor == Scale + (overdue * Scale) \div Day
  IN ((Scale - retention) * overdueFactor) \div Scale

\* the elements of a set of topic ids, in ascending order
RECURSIVE Ascending(_)
Ascending(S) ==
  IF S = {} THEN <<>>
  ELSE LET least == CHOOSE x \in S : \A y \in S : x <= y
       IN <<least>> \o Ascending(S \ {least})

\* the snapshot the routes build from the tables (findMany over Topic,
\* TopicMastery and ReviewQueue, rows in the order of their topic ids)
StoreSnapshot ==
  LET ids == Ascending(DOMAIN prerequisites)
      recorded == Ascending(DOMAIN mastery)
      queued == Ascending(DOMAIN reviewQueue)
      RetentionOf(t) ==
        IF t \in DOMAIN mastery /\ mastery[t].lastPracticedAt # Never
        THEN CalculateRetention(mastery[t].lastPracticedAt, mastery[t].stabilityFactor, now)
        ELSE 0
  IN [allTopics |->
        [k \in 1..Len(ids) |->
           [id |-> ids[k], section |-> SectionOf(StoredPlan, ids[k]),
            prerequisites |-> prerequisites[ids[k]],
            prerequisiteOf |-> SelectSeq(ids, LAMBDA u : InList(prerequisites[u], ids[k]))]],
      allMastery |->
        [k \in 1..Len(recorded) |->
           [topicId |-> recorded[k],
            masteryLevel |-> mastery[recorded[k]].masteryLevel,
            practiceCount |-> mastery[recorded[k]].practiceCount,
            accuracy7d |-> mastery[recorded[k]].accuracy7d]],
      reviewQueue |->
        [k \in 1..Len(queued) |->
           [topicId |-> queued[k],
            urgency |-> CalculateUrgency(RetentionOf(queued[k]),
                                         reviewQueue[queued[k]].scheduledAt, now),
            isDue |-> now >= reviewQueue[queued[k]].scheduledAt]]]

LearnerInit ==
  /\ \E graph \in LearnerGraphs, c2 \in BOOLEAN, c3 \in BOOLEAN, c4 \in BOOLEAN :
       LET store == RecordAll(EmptyStore, graph, LearnerHistory(c2, c3, c4))
       IN /\ prerequisites = graph
          /\ attempts = store.attempts
          /\ mastery = store.mastery
          /\ reviewQueue = store.reviewQueue
  /\ now = LearnerNow
  /\ pc = [r \in Requests |-> "idle"]
  /\ req = [r \in Requests |-> NoRequest]
  /\ loc = [r \in Requests |-> NoLocals]
  /\ effects = [r \in Requests |-> <<>>]
  /\ overlapped = FALSE
  /\ fireTopic = 0
  /\ credits = <<>>
  /\ SelectorIdle
  /\ CallsIdle

\* the routes' selectNextTasks({ allTopics, allMastery, reviewQueue }, count, now)
\* on the snapshot of the store, before the further attempts
Recommend(count) ==
  /\ selCount = NotCalled
  /\ \A r \in Requests : pc[r] = "idle"
  /\ selInput' = StoreSnapshot
  /\ selCount' = count
  /\ selTasks' = SelectNextTasks(StoreSnapshot, count)
  /\ UNCHANGED <<fireVars, storeVars, callVars>>

LearnerNext ==
  \/ \E count \in {1, MaxCount} : Recommend(count)
  \/ \E r \in FollowUps, t \in DOMAIN prerequisites, c \in BOOLEAN, ms \in TimeSpentChoices :
       StartRequest(r, t, c, ms) /\ UNCHANGED <<fireVars, selVars, callVars>>
  \/ \E r \in FollowUps : AttemptCreate(r) /\ UNCHANGED <<fireVars, selVars, callVars>>
  \/ \E r \in FollowUps : MasteryFind(r) /\ UNCHANGED <<fireVars, selVars, callVars>>
  \/ \E r \in FollowUps : MasteryCreate(r) /\ UNCHANGED <<fireVars, selVars, callVars>>
  \/ \E r \in FollowUps : AttemptFindMany(r) /\ UNCHANGED <<fireVars, selVars, callVars>>
  \/ \E r \in FollowUps : MasteryUpdate(r) /\ UNCHANGED <<fireVars, selVars, callVars>>
  \/ \E r \in FollowUps : QueueUpsert(r) /\ UNCHANGED <<fireVars, selVars, callVars>>
  \/ \E r \in FollowUps : CreditsCompute(r) /\ UNCHANGED <<fireVars, selVars, callVars>>
  \/ \E r \in FollowUps : CreditFind(r) /\ UNCHANGED <<fireVars, selVars, callVars>>
  \/ \E r \in FollowUps : CreditUpdate(r) /\ UNCHANGED <<fireVars, selVars, callVars>>

SpecLearner == LearnerInit /\ [][LearnerNext]_vars

\* C28: after a correct explicit attempt on the target topic of a
\* CONSOLIDATION task is recorded, every due topic of the task's covered set
\* is no longer due: its review-queue entry is scheduled after the attempt.
C28_CoveredTopicsRescheduled ==
  \A r \in Requests :
    (pc[r] = "done" /\ req[r].isCorrect /\ selCount # NotCalled) =>
      \A i \in 1..Len(selTasks) :
        (selTasks[i].taskType = "CONSOLIDATION" /\ selTasks[i].topicId = req[r].topicId) =>
          \A k \in 1..Len(selTasks[i].fireConsolidatesTopics) :
            reviewQueue[selTasks[i].fireConsolidatesTopics[k]].scheduledAt > now

====
